---- MODULE Spec2Model ----
(***************************************************************************)
(* A model of the Mitsubishi Comfort (Kumo Cloud) integration ha_kumo_ws:  *)
(* the device record and its merge (pykumo2/models.py), the reconciliation *)
(* coordinator with its command holds (coordinator.py, climate.py) and the *)
(* credential manager and transport of the REST client (pykumo2/client.py).*)
(*                                                                         *)
(* Encoding of Python values.  Every payload value is a string: "None" is  *)
(* Python's None, "0" and "1" are the integers 0 and 1, "true" and "false" *)
(* the booleans, a decimal such as "22.5" a float.  A payload (a dict) is  *)
(* a function whose domain is the set of keys present in it, so that       *)
(* `key in payload` is  key \in DOMAIN payload.                            *)
(***************************************************************************)
EXTENDS Integers, FiniteSets, Sequences, TLC

VARIABLES
    now,        \* time.monotonic(), in seconds
    data,       \* coordinator.data: serial -> device record
    holds,      \* coordinator._holds: serial -> (expires_at, protected keys)
    entities,   \* serials for which a climate entity was created at setup
    cmd,        \* per entity: the command coroutine in flight, if any
    refreshing, \* a periodic refresh (_async_update_data) is in flight
    last,       \* ghost: the operation that produced this state
    replaced,   \* ghost: serial -> keys of the unexpired hold its hold replaced
    steps,      \* ghost: the number of operations so far
    clock,      \* datetime.now(timezone.utc), in minutes
    tokens,     \* client._tokens
    auth_lock,  \* client._auth_lock: the task holding it, or "free"
    task,       \* per task: its position in _request / socket connect
    issued,     \* the number of token pairs the service has issued
    calls,      \* ghost: login and refresh calls sent so far
    refreshOn,  \* ghost: token -> refresh calls the credential check sent for it
    refreshFailOn, \* ghost: token -> those of them the service refused
    step,       \* ghost: the step of the client that produced this state
    advances,   \* ghost: the number of clock advances so far
    ops,        \* ghost: the number of client operations started so far
    refresh_on_connect, \* coordinator.refresh_on_connect
    socket,     \* coordinator._socket: 0 for None, or the channel's number
    chans,      \* every SocketUpdateManager constructed so far, by number
    lock,       \* coordinator._lock: the caller holding it, or "free"
    caller,     \* per caller: its position in async_start_socket
    sockLast    \* ghost: the step of the channel that produced this state

coordVars == <<now, data, holds, entities, cmd, refreshing, last, replaced, steps>>

authVars ==
    <<clock, tokens, auth_lock, task, issued, calls, refreshOn, refreshFailOn,
      step, advances, ops>>

sockVars == <<refresh_on_connect, socket, chans, lock, caller, sockLast>>

vars == <<coordVars, authVars, sockVars>>

----------------------------------------------------------------------------
(* Python values *)

None == "None"

EmptyMap == [k \in {} |-> None]

\* The values Python treats as false among the encoded ones.
Falsy == {None, "", "0", "false"}

Truthy(v) == v \notin Falsy

\* dict.get(key): the value, or None when the key is absent.
Get(payload, key) == IF key \in DOMAIN payload THEN payload[key] ELSE None

\* Python's  a or b.
Or(a, b) == IF Truthy(a) THEN a ELSE b

\* dict.update(other)
DictUpdate(d, other) ==
    [k \in DOMAIN d \cup DOMAIN other |->
        IF k \in DOMAIN other THEN other[k] ELSE d[k]]

----------------------------------------------------------------------------
(* pykumo2/models.py: DeviceState *)

VALID_FAN_SPEEDS == {"superQuiet", "quiet", "low", "powerful", "superPowerful", "auto"}

VALID_AIR_DIRECTIONS ==
    {"auto", "horizontal", "midhorizontal", "midpoint", "midvertical", "vertical", "swing"}

\* The dict values a displayConfig key can carry (isinstance(..., dict)).
DictValues == {"{}", "{defrost}", "{standby}"}

\* The attribute is not a field of the dataclass: it exists on an object only
\* once something assigned it.
Unset == "<no attribute>"

\* DeviceState(serial=..., name=...) with the dataclass defaults and __post_init__.
DeviceState(serial, name) ==
    [ serial             |-> serial,
      name               |-> name,
      zone_id            |-> None,
      connected          |-> TRUE,
      room_temp          |-> None,
      sp_cool            |-> None,
      sp_heat            |-> None,
      humidity           |-> None,
      operation_mode     |-> None,
      power              |-> FALSE,
      fan_speed          |-> None,
      air_direction      |-> None,
      schedule_owner     |-> None,
      last_status_change |-> None,
      rssi               |-> None,
      two_figures_code   |-> None,
      serial_number      |-> serial,
      model_number       |-> None,
      display_config     |-> "{}",
      room_temp_offset   |-> Unset,
      raw                |-> EmptyMap ]

\* Mutant: only the status "disconnected" counts as not connected.
ConnectedFromStatus_Lenient(status) == status # "disconnected"

\* status == "connected": what a string status makes of the flag.
ConnectedFromStatus(status) == status = "connected"

\* DeviceState.apply_update(payload): a field is assigned iff its key is present.
apply_update(dev, payload) ==
    LET has(k) == k \in DOMAIN payload
    IN [ dev EXCEPT
          !.name = IF has("name") THEN payload["name"] ELSE @,
          !.room_temp = IF has("roomTemp") THEN payload["roomTemp"] ELSE @,
          !.sp_cool = IF has("spCool") THEN payload["spCool"] ELSE @,
          !.sp_heat = IF has("spHeat") THEN payload["spHeat"] ELSE @,
          !.humidity = IF has("humidity") THEN payload["humidity"] ELSE @,
          !.operation_mode =
              IF has("operationMode") \/ has("mode")
              THEN Or(Get(payload, "operationMode"), Get(payload, "mode"))
              ELSE @,
          !.power = IF has("power") THEN Truthy(payload["power"]) ELSE @,
          !.fan_speed =
              IF has("fanSpeed") /\ payload["fanSpeed"] \in VALID_FAN_SPEEDS
              THEN payload["fanSpeed"] ELSE @,
          !.air_direction =
              IF has("airDirection") /\ payload["airDirection"] \in VALID_AIR_DIRECTIONS
              THEN payload["airDirection"] ELSE @,
          !.schedule_owner = IF has("scheduleOwner") THEN payload["scheduleOwner"] ELSE @,
          !.last_status_change =
              IF has("lastStatusChangeAt") THEN payload["lastStatusChangeAt"] ELSE @,
          !.rssi = IF has("rssi") THEN payload["rssi"] ELSE @,
          !.two_figures_code = IF has("twoFiguresCode") THEN payload["twoFiguresCode"] ELSE @,
          !.serial_number = IF has("serialNumber") THEN payload["serialNumber"] ELSE @,
          !.model_number =
              IF has("modelNumber") \/ has("model") \/ has("modelName")
              THEN Or(Get(payload, "modelNumber"),
                      Or(Get(payload, "model"), Get(payload, "modelName")))
              ELSE @,
          !.connected =
              IF has("status") THEN ConnectedFromStatus(payload["status"])
              ELSE IF has("connected") THEN Truthy(payload["connected"])
              ELSE @,
          !.display_config =
              IF has("displayConfig") /\ payload["displayConfig"] \in DictValues
              THEN payload["displayConfig"] ELSE @,
          !.raw = DictUpdate(@, payload) ]

\* Mutant: the cool setpoint is preferred whatever the mode.
target_temperature_CoolFirst(dev) ==
    IF dev.sp_cool # None THEN dev.sp_cool ELSE dev.sp_heat

\* DeviceState.target_temperature()
target_temperature(dev) ==
    IF dev.operation_mode = "cool" THEN dev.sp_cool
    ELSE IF dev.operation_mode = "heat" THEN dev.sp_heat
    ELSE IF dev.sp_cool # None THEN dev.sp_cool
    ELSE dev.sp_heat

----------------------------------------------------------------------------
(* coordinator.py: the command holds *)

\* Mutant: a hold that runs out only strictly after its expiry.
HoldExpired_Strict(t, expires_at) == t > expires_at

\* A hold has run out once the monotonic clock is at or past its expiry.
HoldExpired(t, expires_at) == t >= expires_at

\* The payload without its protected keys.
StripProtected(payload, protected) ==
    [k \in DOMAIN payload \ protected |-> payload[k]]

\* Mutant: a new hold that adds its keys to those of the hold it finds.
register_command_hold_Union(h, t, serial, protected_keys, duration) ==
    [s \in DOMAIN h \cup {serial} |->
        IF s = serial
        THEN [expires_at |-> t + duration,
              protected |-> protected_keys \cup
                            (IF serial \in DOMAIN h THEN h[serial].protected ELSE {})]
        ELSE h[s]]

\* self._holds[serial] = (time.monotonic() + duration, set(protected_keys))
register_command_hold(h, t, serial, protected_keys, duration) ==
    [s \in DOMAIN h \cup {serial} |->
        IF s = serial
        THEN [expires_at |-> t + duration, protected |-> protected_keys]
        ELSE h[s]]

\* dict.pop(serial, None)
HoldsPop(h, serial) == [s \in DOMAIN h \ {serial} |-> h[s]]

----------------------------------------------------------------------------
(* Bounds and inputs of the coordinator's model *)

\* The clock stops advancing here.
MaxTime == 12

\* The amounts of time (seconds) that pass between two operations.
TickSteps == {2, 10}

\* The runs explored are those of at most this many operations.
MaxSteps == 5

\* Every operation counts as one step of the run.
Step == steps < MaxSteps /\ steps' = steps + 1

\* duration=10.0 at every call of register_command_hold, and its default.
DefaultHoldDuration == 10

Serials == {"ABC123", "XYZ789"}

\* Event tags the coordinator merges, and the channel's lifecycle tags.
PushTags == {"device_update", "device_status_v2"}

\* The registries the coordinator starts from: records as DeviceState builds
\* them, with a first payload merged.
InitRegistries ==
    LET abc == apply_update(DeviceState("ABC123", "Living room"),
                   ("power" :> "1") @@ ("operationMode" :> "cool") @@ ("spCool" :> "24.0"))
        xyz == apply_update(DeviceState("XYZ789", "Office"), ("power" :> "0"))
    IN { ("ABC123" :> abc), ("ABC123" :> abc) @@ ("XYZ789" :> xyz) }

\* Events delivered by the streaming channel: [event, payload].
SocketEvents ==
    LET ev(tag, p) == [event |-> tag, payload |-> p]
        for(s) == ("deviceSerial" :> s)
    IN { ev("device_update", for("ABC123") @@ ("spCool" :> "24.0") @@ ("roomTemp" :> "23.1")),
         ev("device_update", for("ABC123") @@ ("mode" :> "heat")),
         ev("device_update", for("ABC123") @@ ("fanSpeed" :> "low") @@ ("spCool" :> "24.0")),
         ev("device_status_v2", for("XYZ789") @@ ("status" :> "disconnected")),
         ev("device_update", for("NOPE00") @@ ("roomTemp" :> "23.1")),
         ev("device_status_v2", ("status" :> "disconnected")),
         ev("connected", ("devices" :> "ABC123")) }

----------------------------------------------------------------------------
(* coordinator.py: _handle_socket_event *)

\* Mutant: only the tag is looked at.
EventIgnored_TagOnly(event, payload) == event \notin PushTags

\* The event is dropped by the two early returns.
EventIgnored(event, payload) ==
    \/ event \notin PushTags
    \/ ~Truthy(Get(payload, "deviceSerial"))
    \/ Get(payload, "deviceSerial") \notin DOMAIN data

\* How the hold of the serial stands when an event for it is handled.
HoldState(h, t, serial) ==
    IF serial \notin DOMAIN h THEN "none"
    ELSE IF HoldExpired(t, h[serial].expires_at) THEN "expired"
    ELSE "active"

\* Mutant: the payload is merged as it came, hold or not.
MergedPayload_Unstripped(h, t, serial, payload) == payload

\* The payload handed to apply_update.
MergedPayload(h, t, serial, payload) ==
    IF HoldState(h, t, serial) = "active"
    THEN StripProtected(payload, h[serial].protected)
    ELSE payload

\* The hold table after the event: an expired hold is dropped.
HoldsAfterEvent(h, t, serial) ==
    IF HoldState(h, t, serial) = "expired" THEN HoldsPop(h, serial) ELSE h

HandleSocketEvent(e) ==
    LET serial == Get(e.payload, "deviceSerial")
    IN /\ last' = [ op |-> IF EventIgnored(e.event, e.payload) THEN "event_ignored" ELSE "push",
                    serial |-> serial,
                    payload |-> e.payload,
                    info |-> IF EventIgnored(e.event, e.payload) THEN "none"
                             ELSE HoldState(holds, now, serial),
                    pubs |-> IF EventIgnored(e.event, e.payload) THEN 0 ELSE 1,
                    event |-> e.event ]
       /\ IF EventIgnored(e.event, e.payload)
          THEN UNCHANGED <<data, holds, replaced>>
          ELSE /\ holds' = HoldsAfterEvent(holds, now, serial)
               /\ data' = [data EXCEPT ![serial] =
                              apply_update(@, MergedPayload(holds, now, serial, e.payload))]
               /\ replaced' = [s \in DOMAIN replaced \cap DOMAIN holds' |-> replaced[s]]
       /\ Step
       /\ UNCHANGED <<authVars, sockVars>>
       /\ UNCHANGED <<now, entities, cmd, refreshing>>

\* time.monotonic() advances.
Tick(d) ==
    /\ now + d <= MaxTime
    /\ now' = now + d
    /\ Step
    /\ UNCHANGED <<authVars, sockVars>>
    /\ last' = [op |-> "tick", serial |-> None, payload |-> EmptyMap, info |-> "none", pubs |-> 0]
    /\ UNCHANGED <<data, holds, entities, cmd, refreshing, replaced>>

----------------------------------------------------------------------------
(* climate.py: the command operations of a climate entity *)

\* HVAC_TO_API, keyed by the values of Home Assistant's HVACMode (a string enum,
\* so that a record's operation mode looks a key up as well).
HVAC_TO_API ==
    ("off" :> "off") @@ ("heat" :> "heat") @@ ("cool" :> "cool") @@
    ("auto" :> "auto") @@ ("dry" :> "dry") @@ ("fan_only" :> "vent")

FAN_MODES == {"superQuiet", "quiet", "low", "powerful", "superPowerful", "auto"}

SWING_MODES ==
    {"auto", "horizontal", "midhorizontal", "midpoint", "midvertical", "vertical", "swing"}

\* str.lower() on the mode names the model feeds in.
Lower(x) ==
    CASE x = "AUTO" -> "auto"
      [] x = "Swing" -> "swing"
      [] OTHER -> x

\* fan_mode if fan_mode in FAN_MODES else fan_mode.lower()
NormalizeMode(x, allowed) == IF x \in allowed THEN x ELSE Lower(x)

\* The commands async_set_temperature sends; device_mode is the record's
\* operation mode, or None when the registry has no record for the entity.
TemperatureCommands(kw, device_mode) ==
    LET hvac_mode ==
            IF kw.hvac_mode = None /\ (kw.target_temp_low # None \/ kw.target_temp_high # None)
            THEN "auto" ELSE kw.hvac_mode
        key == Or(hvac_mode, device_mode)
        api_mode == IF key \in DOMAIN HVAC_TO_API THEN HVAC_TO_API[key] ELSE None
        power == ("power" :> "1")
        range_cool ==
            IF kw.target_temp_high # None THEN ("spCool" :> kw.target_temp_high)
            ELSE IF kw.temperature # None THEN ("spCool" :> kw.temperature)
            ELSE EmptyMap
        range_heat ==
            IF kw.target_temp_low # None THEN ("spHeat" :> kw.target_temp_low)
            ELSE IF kw.temperature # None THEN ("spHeat" :> kw.temperature)
            ELSE EmptyMap
    IN CASE api_mode = "cool" ->
              power @@ ("spCool" :> kw.temperature) @@ ("operationMode" :> "cool")
         [] api_mode = "heat" ->
              power @@ ("spHeat" :> kw.temperature) @@ ("operationMode" :> "heat")
         [] api_mode = "auto" ->
              power @@ range_cool @@ range_heat @@ ("operationMode" :> "auto")
         [] api_mode = "dry" -> power @@ ("operationMode" :> "dry")
         [] api_mode = "vent" -> power @@ ("operationMode" :> "vent")
         [] OTHER ->
              IF kw.temperature # None
              THEN power @@ ("spCool" :> kw.temperature) @@ ("spHeat" :> kw.temperature)
              ELSE power

\* commands of async_set_hvac_mode
HvacModeCommands(hvac_mode) ==
    ("operationMode" :> HVAC_TO_API[hvac_mode]) @@
    ("power" :> IF hvac_mode = "off" THEN "0" ELSE "1")

\* The optimistic update of the record, per operation.
Optimistic(op, dev, commands) ==
    CASE op = "set_temperature" ->
            [dev EXCEPT
               !.sp_cool = IF "spCool" \in DOMAIN commands THEN commands["spCool"] ELSE @,
               !.sp_heat = IF "spHeat" \in DOMAIN commands THEN commands["spHeat"] ELSE @,
               !.operation_mode =
                   IF "operationMode" \in DOMAIN commands THEN commands["operationMode"] ELSE @,
               !.power = TRUE]
      [] op = "set_hvac_mode" ->
            [dev EXCEPT !.operation_mode = commands["operationMode"],
                        !.power = (commands["power"] = "1")]
      [] op = "set_fan_mode" -> [dev EXCEPT !.fan_speed = commands["fanSpeed"]]
      [] op = "set_swing_mode" -> [dev EXCEPT !.air_direction = commands["airDirection"]]

\* The keys each operation protects after a successful send.
HoldKeys(op) ==
    CASE op = "set_temperature" -> {"spCool", "spHeat", "operationMode", "power"}
      [] op = "set_hvac_mode" -> {"operationMode", "power"}
      [] op = "set_fan_mode" -> {"fanSpeed"}
      [] op = "set_swing_mode" -> {"airDirection"}

Idle == [pc |-> "idle", op |-> "none", commands |-> EmptyMap, dev |-> "none"]

\* The coroutine is suspended in  await self._client.async_send_command(...).
\* dev tells which record object the coroutine holds: async_set_temperature
\* reads self.device before the send ("live" while that object is still the
\* registry's, "stale" once a refresh replaced the registry, "none" when
\* there was no record); the other operations read it after the send ("late").
Sending(op, commands, dev) == [pc |-> "sending", op |-> op, commands |-> commands, dev |-> dev]

\* The ghost: the operation, the serial and payload (or commands) it was about,
\* info (for a push: how the hold stood; for a command: which operation) and
\* the number of publishes (async_set_updated_data) it made.
Ghost(op, serial, payload, info, pubs) ==
    [op |-> op, serial |-> serial, payload |-> payload, info |-> info, pubs |-> pubs]

\* Keyword arguments of async_set_temperature the model feeds in.
TemperatureCalls ==
    LET kw(t, lo, hi, m) ==
            [temperature |-> t, target_temp_low |-> lo, target_temp_high |-> hi, hvac_mode |-> m]
    IN { kw("22.5", None, None, None),
         kw(None, None, None, "cool") }

SetTemperature(s, kw) ==
    /\ s \in entities
    /\ cmd[s].pc = "idle"
    /\ LET returns == kw.temperature = None /\ kw.target_temp_low = None
                      /\ kw.target_temp_high = None
           known == s \in DOMAIN data
           commands == TemperatureCommands(kw, IF known THEN data[s].operation_mode ELSE None)
       IN /\ cmd' = IF returns THEN cmd
                    ELSE [cmd EXCEPT ![s] = Sending("set_temperature", commands,
                                                    IF known THEN "live" ELSE "none")]
          /\ last' = Ghost(IF returns THEN "cmd_return" ELSE "cmd_start", s,
                           IF returns THEN EmptyMap ELSE commands, "set_temperature", 0)
    /\ Step
    /\ UNCHANGED <<authVars, sockVars>>
    /\ UNCHANGED <<now, data, holds, entities, refreshing, replaced>>

SetHvacMode(s, hvac_mode) ==
    /\ s \in entities
    /\ cmd[s].pc = "idle"
    /\ cmd' = [cmd EXCEPT ![s] = Sending("set_hvac_mode", HvacModeCommands(hvac_mode), "late")]
    /\ last' = Ghost("cmd_start", s, HvacModeCommands(hvac_mode), "set_hvac_mode", 0)
    /\ Step
    /\ UNCHANGED <<authVars, sockVars>>
    /\ UNCHANGED <<now, data, holds, entities, refreshing, replaced>>

SetFanMode(s, fan_mode) ==
    /\ s \in entities
    /\ cmd[s].pc = "idle"
    /\ LET mode == NormalizeMode(fan_mode, FAN_MODES)
           returns == ~Truthy(fan_mode) \/ mode \notin FAN_MODES
       IN /\ cmd' = IF returns THEN cmd
                    ELSE [cmd EXCEPT ![s] = Sending("set_fan_mode", ("fanSpeed" :> mode), "late")]
          /\ last' = Ghost(IF returns THEN "cmd_return" ELSE "cmd_start", s,
                           IF returns THEN EmptyMap ELSE ("fanSpeed" :> mode), "set_fan_mode", 0)
    /\ Step
    /\ UNCHANGED <<authVars, sockVars>>
    /\ UNCHANGED <<now, data, holds, entities, refreshing, replaced>>

SetSwingMode(s, swing_mode) ==
    /\ s \in entities
    /\ cmd[s].pc = "idle"
    /\ LET mode == NormalizeMode(swing_mode, SWING_MODES)
           returns == ~Truthy(swing_mode) \/ mode \notin SWING_MODES
       IN /\ cmd' = IF returns THEN cmd
                    ELSE [cmd EXCEPT ![s] = Sending("set_swing_mode", ("airDirection" :> mode), "late")]
          /\ last' = Ghost(IF returns THEN "cmd_return" ELSE "cmd_start", s,
                           IF returns THEN EmptyMap ELSE ("airDirection" :> mode), "set_swing_mode", 0)
    /\ Step
    /\ UNCHANGED <<authVars, sockVars>>
    /\ UNCHANGED <<now, data, holds, entities, refreshing, replaced>>

\* The record object the optimistic update writes to is the registry's.
WritesRegistry(c, s) ==
    \/ c.dev = "live"
    \/ c.dev = "late" /\ s \in DOMAIN data

\* Mutant: the optimistic update is left unpublished.
Publishes_Never(c, s) == FALSE

\* `if device:` holds, so the coroutine publishes dict(self.coordinator.data).
Publishes(c, s) ==
    \/ c.dev \in {"live", "stale"}
    \/ c.dev = "late" /\ s \in DOMAIN data

\* The registry after the code that follows a successful send.
DataAfterSend(d, c, s) ==
    IF WritesRegistry(c, s) THEN [d EXCEPT ![s] = Optimistic(c.op, @, c.commands)] ELSE d

\* The hold table after the code that follows a successful send.
HoldsAfterSend(h, t, c, s) ==
    register_command_hold(h, t, s, HoldKeys(c.op), DefaultHoldDuration)

\* async_send_command returned: optimistic update, publish, hold.
SendCommandOk(s) ==
    /\ s \in entities
    /\ cmd[s].pc = "sending"
    /\ data' = DataAfterSend(data, cmd[s], s)
    /\ holds' = HoldsAfterSend(holds, now, cmd[s], s)
    /\ cmd' = [cmd EXCEPT ![s] = Idle]
    /\ last' = Ghost("cmd_ok", s, cmd[s].commands, cmd[s].op,
                     IF Publishes(cmd[s], s) THEN 1 ELSE 0)
    /\ replaced' = IF HoldState(holds, now, s) = "active"
                   THEN DictUpdate(replaced, (s :> holds[s].protected))
                   ELSE [x \in DOMAIN replaced \ {s} |-> replaced[x]]
    /\ Step
    /\ UNCHANGED <<authVars, sockVars>>
    /\ UNCHANGED <<now, entities, refreshing>>

\* Mutant: the hold is registered although the send raised.
HoldsAfterFailedSend_Registers(h, t, c, s) == HoldsAfterSend(h, t, c, s)

\* The registry and hold table when async_send_command raised: the exception
\* leaves the coroutine, nothing after the await runs.
DataAfterFailedSend(d, c, s) == d

HoldsAfterFailedSend(h, t, c, s) == h

SendCommandFail(s) ==
    /\ s \in entities
    /\ cmd[s].pc = "sending"
    /\ data' = DataAfterFailedSend(data, cmd[s], s)
    /\ holds' = HoldsAfterFailedSend(holds, now, cmd[s], s)
    /\ cmd' = [cmd EXCEPT ![s] = Idle]
    /\ last' = Ghost("cmd_raised", s, cmd[s].commands, cmd[s].op, 0)
    /\ Step
    /\ UNCHANGED <<authVars, sockVars>>
    /\ UNCHANGED <<now, entities, refreshing, replaced>>

----------------------------------------------------------------------------
(* payloads.py and client.py: enumerating the devices of a site *)

\* model_dump(exclude_none=True): the keys whose value is not None.
NotNone(payload) == [k \in {x \in DOMAIN payload : payload[x] # None} |-> payload[k]]

\* DeviceStatePayload.apply_to_device: a field is assigned iff its value is not
\* None; the payload is then merged into the diagnostic bag.
payload_apply_to_device(dev, payload) ==
    LET v(k) == Get(payload, k)
    IN [ dev EXCEPT
          !.room_temp = IF v("roomTemp") # None THEN v("roomTemp") ELSE @,
          !.sp_cool = IF v("spCool") # None THEN v("spCool") ELSE @,
          !.sp_heat = IF v("spHeat") # None THEN v("spHeat") ELSE @,
          !.humidity = IF v("humidity") # None THEN v("humidity") ELSE @,
          !.operation_mode = IF v("operationMode") # None THEN v("operationMode") ELSE @,
          !.power = IF v("power") # None THEN Truthy(v("power")) ELSE @,
          !.fan_speed = IF v("fanSpeed") \in VALID_FAN_SPEEDS THEN v("fanSpeed") ELSE @,
          !.air_direction =
              IF v("airDirection") \in VALID_AIR_DIRECTIONS THEN v("airDirection") ELSE @,
          !.schedule_owner = IF v("scheduleOwner") # None THEN v("scheduleOwner") ELSE @,
          !.rssi = IF v("rssi") # None THEN v("rssi") ELSE @,
          !.two_figures_code = IF v("twoFiguresCode") # None THEN v("twoFiguresCode") ELSE @,
          !.serial_number = IF v("serialNumber") # None THEN v("serialNumber") ELSE @,
          !.model_number = IF v("modelNumber") # None THEN v("modelNumber") ELSE @,
          !.connected = IF v("connected") # None THEN Truthy(v("connected")) ELSE @,
          !.display_config = IF v("displayConfig") # None THEN v("displayConfig") ELSE @,
          !.raw = DictUpdate(@, NotNone(payload)) ]

\* DeviceStatusV2Payload.apply_to_device: the flag follows a status that is
\* not None; the payload is kept in the diagnostic bag under its shape tag.
status_v2_apply_to_device(dev, payload) ==
    LET v(k) == Get(payload, k)
        times == {k \in {"lastTimeConnected", "lastTimeDisconnected", "lastDisconnectedReason"} :
                     v(k) # None}
    IN [ dev EXCEPT
          !.connected = IF v("status") # None THEN ConnectedFromStatus(v("status")) ELSE @,
          !.raw = DictUpdate(DictUpdate(@, [k \in times |-> payload[k]]),
                             ("device_status_v2" :> NotNone(payload))) ]

\* Mutant: the payload is merged into the bag without its shape tag.
details_apply_to_device_Untagged(dev, payload) == payload_apply_to_device(dev, payload)

\* DeviceDetailsResponse.apply_to_device: the merge of DeviceStatePayload,
\* then the payload is kept in the diagnostic bag under its shape tag.
details_apply_to_device(dev, payload) ==
    [payload_apply_to_device(dev, payload) EXCEPT
        !.raw = DictUpdate(@, ("device_details" :> NotNone(payload)))]

\* A zone without adapter has the empty payload for it.
HasAdapter(zone) == DOMAIN zone.adapter # {}

\* raw_payload() of a ZoneResponse: model_dump(by_alias=True, exclude_none=True)
ZoneRaw(zone) ==
    LET whole == [id |-> zone.id, name |-> zone.name, adapter |-> NotNone(zone.adapter)]
        kept == {k \in {"id", "name"} : whole[k] # None}
                   \cup (IF HasAdapter(zone) THEN {"adapter"} ELSE {})
    IN [k \in kept |-> whole[k]]

\* ZoneResponse.apply_to_device of the zone [id, name, adapter].
zone_apply_to_device(dev, zone) ==
    LET named == [dev EXCEPT !.name = IF Truthy(zone.name) THEN zone.name ELSE @]
        applied == IF HasAdapter(zone) THEN payload_apply_to_device(named, zone.adapter)
                   ELSE named
    IN [applied EXCEPT !.raw = DictUpdate(@, ("zone" :> ZoneRaw(zone)))]

\* A zone of the listing: [id, name, adapter], adapter a payload.  The record
\* the first loop of async_get_devices builds or updates for it.
ZoneDevice(devices, zone) ==
    LET serial == Get(zone.adapter, "deviceSerial")
        fresh == [DeviceState(serial, Or(zone.name, serial)) EXCEPT
                     !.zone_id = zone.id,
                     !.model_number = Get(zone.adapter, "modelNumber"),
                     !.serial_number = IF Get(zone.adapter, "serialNumber") = None
                                       THEN serial ELSE Get(zone.adapter, "serialNumber")]
        device == IF serial \in DOMAIN devices THEN devices[serial] ELSE fresh
        zoned == [device EXCEPT !.zone_id = IF Truthy(zone.id) THEN zone.id ELSE @,
                                !.name = IF Truthy(zone.name) THEN zone.name ELSE @]
    IN zone_apply_to_device(zoned, zone)

RECURSIVE ZoneDevices(_, _)
ZoneDevices(zones, devices) ==
    IF zones = <<>> THEN devices
    ELSE LET zone == Head(zones)
             serial == Get(zone.adapter, "deviceSerial")
         IN ZoneDevices(Tail(zones),
                IF ~Truthy(serial) THEN devices
                ELSE DictUpdate(devices, (serial :> ZoneDevice(devices, zone))))

\* The second enrichment loop reads device.room_temp_offset of every device:
\* the read raises AttributeError on an object nothing assigned it to.
OffsetReadRaises(devices) == \E s \in DOMAIN devices : devices[s].room_temp_offset = Unset

\* async_get_devices for one listing answer: [error, devices].  The detail
\* requests of the first enrichment loop are best-effort and cannot assign
\* room_temp_offset, so they do not decide the outcome.
async_get_devices(answer) ==
    IF answer.error # None THEN [error |-> answer.error, devices |-> EmptyMap]
    ELSE LET devices == ZoneDevices(answer.zones, EmptyMap)
         IN IF OffsetReadRaises(devices)
            THEN [error |-> "AttributeError", devices |-> EmptyMap]
            ELSE [error |-> None, devices |-> devices]

\* Answers of the zone listing the model feeds in.
ZoneAnswers ==
    LET zone(id, name, adapter) == [id |-> id, name |-> name, adapter |-> adapter]
        ok(zones) == [error |-> None, zones |-> zones]
    IN { ok(<<>>),
         ok(<<zone("z1", "Living room", ("deviceSerial" :> "ABC123") @@ ("spCool" :> "24.0"))>>),
         ok(<<zone("z0", "Spare", EmptyMap)>>),
         [error |-> "MitsubishiComfortError", zones |-> <<>>],
         [error |-> "AuthenticationError", zones |-> <<>>] }

\* The answers of one refresh cycle, one per configured site, in order.
SiteAnswers ==
    LET zone(id, name, adapter) == [id |-> id, name |-> name, adapter |-> adapter]
        ok(zones) == [error |-> None, zones |-> zones]
        spare == ok(<<zone("z0", "Spare", EmptyMap)>>)
        living == ok(<<zone("z1", "Living room",
                            ("deviceSerial" :> "ABC123") @@ ("spCool" :> "24.0"))>>)
    IN { <<a>> : a \in ZoneAnswers }
       \cup { <<spare, ok(<<>>)>>,
              <<spare, [error |-> "MitsubishiComfortError", zones |-> <<>>]>>,
              <<ok(<<>>), [error |-> "AuthenticationError", zones |-> <<>>]>>,
              <<spare, living>> }

\* The loop of _async_update_data over the sites: [error, devices, sites],
\* sites the number of sites fetched before the error, if any.  The local
\* mapping is lost when async_get_devices raises.
RECURSIVE SitesDevices(_, _, _)
SitesDevices(answers, devices, sites) ==
    IF answers = <<>> THEN [error |-> None, devices |-> devices, sites |-> sites]
    ELSE LET got == async_get_devices(Head(answers))
         IN IF got.error # None
            THEN [error |-> got.error, devices |-> EmptyMap, sites |-> sites]
            ELSE SitesDevices(Tail(answers), DictUpdate(devices, got.devices), sites + 1)

\* except MitsubishiComfortError as exc: raise UpdateFailed(str(exc)) from exc.
\* AuthenticationError is a subclass of MitsubishiComfortError (errors.py);
\* any other exception leaves _async_update_data as it is.
UpdateRaises(error) ==
    IF error \in {"MitsubishiComfortError", "AuthenticationError"} THEN "UpdateFailed"
    ELSE error

\* async_setup_entry, were this refresh the first one: the coordinator's
\* async_config_entry_first_refresh raises ConfigEntryNotReady when the
\* refresh failed, whatever _async_update_data raised; async_setup_entry
\* turns an AuthenticationError into ConfigEntryAuthFailed and any other
\* exception into ConfigEntryNotReady.
SetupRaises(raised) ==
    LET first_refresh == IF raised = None THEN None ELSE "ConfigEntryNotReady"
    IN IF first_refresh = None THEN None
       ELSE IF first_refresh = "AuthenticationError" THEN "ConfigEntryAuthFailed"
       ELSE "ConfigEntryNotReady"

\* The serials the listings name, each with the adapter payload of its zone.
RECURSIVE ListedIn(_)
ListedIn(zones) ==
    IF zones = <<>> THEN EmptyMap
    ELSE LET serial == Get(Head(zones).adapter, "deviceSerial")
         IN IF ~Truthy(serial) THEN ListedIn(Tail(zones))
            ELSE DictUpdate(ListedIn(Tail(zones)), (serial :> Head(zones).adapter))

RECURSIVE Listed(_)
Listed(answers) ==
    IF answers = <<>> THEN EmptyMap
    ELSE DictUpdate(Listed(Tail(answers)),
                    IF Head(answers).error = None THEN ListedIn(Head(answers).zones)
                    ELSE EmptyMap)

\* Mutant: whatever the sites fetched so far gave becomes the registry.
DataAfterRefresh_Partial(d, got) == got.devices

\* self.data after the refresh: the returned mapping, or as before.
DataAfterRefresh(d, got) == IF got.error = None THEN got.devices ELSE d

----------------------------------------------------------------------------
(* coordinator.py: the periodic refresh *)

RefreshStart ==
    /\ ~refreshing
    /\ refreshing' = TRUE
    /\ last' = Ghost("refresh_start", None, EmptyMap, "none", 0)
    /\ Step
    /\ UNCHANGED <<authVars, sockVars>>
    /\ UNCHANGED <<now, data, holds, entities, cmd, replaced>>

\* _async_update_data returned or raised.  On success the coordinator's data
\* becomes the new mapping of new record objects and is published; any
\* exception leaves it as it was.  The ghost keeps what the client raised
\* (cause), how many sites were fetched before, what the listings named, what
\* _async_update_data raised (info) and what async_setup_entry would raise.
RefreshDone(answers) ==
    LET got == SitesDevices(answers, EmptyMap, 0)
        raised == UpdateRaises(got.error)
    IN /\ refreshing
       /\ refreshing' = FALSE
       /\ data' = DataAfterRefresh(data, got)
       /\ cmd' = IF got.error = None
                 THEN [s \in DOMAIN cmd |->
                          IF cmd[s].dev = "live" THEN [cmd[s] EXCEPT !.dev = "stale"] ELSE cmd[s]]
                 ELSE cmd
       /\ last' = Ghost(IF got.error = None THEN "refresh_ok" ELSE "refresh_failed",
                        None,
                        [cause |-> got.error, sites |-> got.sites,
                         listed |-> Listed(answers), setup |-> SetupRaises(raised)],
                        IF got.error = None THEN "none" ELSE raised,
                        IF got.error = None THEN 1 ELSE 0)
       /\ Step
       /\ UNCHANGED <<authVars, sockVars>>
       /\ UNCHANGED <<now, holds, entities, replaced>>

----------------------------------------------------------------------------
(* pykumo2/models.py TokenInfo and pykumo2/client.py: credentials           *)

\* timedelta(minutes=18), in minutes.
AccessLifetime == 18

\* timedelta(days=25), in minutes.
RefreshLifetime == 36000

\* self._tokens = None.  A token pair issued by the service carries the
\* (positive) number of its issue as access and as refresh token.
NoTokens == [access |-> 0, refresh |-> 0, access_expires_at |-> 0, refresh_expires_at |-> 0]

\* Mutant: a response that replaces the access half of the pair only.
from_response_AccessOnly(id, t) ==
    [tokens EXCEPT !.access = id, !.access_expires_at = t + AccessLifetime]

\* Mutant: the two lifetimes the wrong way round.
from_response_Swapped(id, t) ==
    [access |-> id, refresh |-> id,
     access_expires_at |-> t + RefreshLifetime,
     refresh_expires_at |-> t + AccessLifetime]

\* TokenInfo.from_response, for the id-th pair the service issues.
from_response(id, t) ==
    [access |-> id, refresh |-> id,
     access_expires_at |-> t + AccessLifetime,
     refresh_expires_at |-> t + RefreshLifetime]

\* Mutant: an access token that counts as expired a minute early.
is_access_expired_Early(t, tk) == t + 1 >= tk.access_expires_at

\* datetime.now(timezone.utc) >= self.access_expires_at
is_access_expired(t, tk) == t >= tk.access_expires_at

\* Mutant: a refresh token that expires only strictly after its expiry.
is_refresh_expired_Strict(t, tk) == t > tk.refresh_expires_at

\* datetime.now(timezone.utc) >= self.refresh_expires_at
is_refresh_expired(t, tk) == t >= tk.refresh_expires_at

\* Mutant: a guard that never excludes anybody.
Locked_Never(l) == FALSE

\* asyncio.Lock.locked()
Locked(l) == l # "free"

\* Mutant: every error status forces a refresh and a retry.
ShouldRetry_AnyError(status, require_auth) == status >= 400 /\ require_auth

\* Mutant: a 401 is handled as any other status.
ShouldRetry_Never(status, require_auth) == FALSE

\* if response.status_code == 401 and require_auth
ShouldRetry(status, require_auth) == status = 401 /\ require_auth

\* The tasks that use the client concurrently.
AuthTasks == {"t1", "t2"}

\* What a task calls: _request (with require_auth) or the socket's connect,
\* which calls _ensure_authenticated and reads the access token.
AuthKinds == {"request", "connect"}

\* The status codes the service answers a request with.
Statuses == {200, 401, 500}

\* The clock advances the model takes: to just before the access expiry of a
\* pair issued now, to that expiry, and to its refresh expiry.
ClockSteps == {AccessLifetime - 1, AccessLifetime, RefreshLifetime}

MaxAdvances == 2

MaxOps == 3

\* A task that is not using the client.
IdleTask ==
    [pc |-> "idle", kind |-> "none", hdr |-> 0, sends |-> 0, forced |-> 0,
     chkLogins |-> 0, chkRefreshes |-> 0, entryTokens |-> NoTokens, entryClock |-> 0]

\* The step of the client that led here: what happened, in which task, the
\* status answered, what the call raised or returned if it ended ("none" if
\* it goes on), and the access token the socket's connect read.
AuthEvent(op, t, status, ended, token) ==
    [op |-> op, task |-> t, status |-> status, ended |-> ended, token |-> token]

\* f with the count of k raised by one.
Bump(f, k) ==
    [x \in DOMAIN f \cup {k} |->
        IF x = k THEN (IF k \in DOMAIN f THEN f[k] + 1 ELSE 1) ELSE f[x]]

\* _ensure_authenticated has returned with pair tk: _request puts its access
\* token in the header and sends; the socket's connect reads it and goes on
\* outside the client.
AfterCheck(me, tk) ==
    IF me.kind = "request"
    THEN [IdleTask EXCEPT !.pc = "request_wait", !.kind = "request",
                          !.hdr = tk.access, !.sends = 1]
    ELSE IdleTask

\* What the step that ends the credential check with pair tk reports.
CheckEnded(op, t, status, me, tk) ==
    IF me.kind = "request"
    THEN AuthEvent(op, t, status, "none", 0)
    ELSE AuthEvent(op, t, status, "ok", tk.access)

\* The body of _ensure_authenticated, from the acquisition of the lock to the
\* first await (the POST of login or refresh) or to its return.
CheckBody(op, t, me0) ==
    LET me == [me0 EXCEPT !.entryTokens = tokens, !.entryClock = clock]
    IN /\ UNCHANGED <<tokens, issued, refreshFailOn>>
       /\ IF tokens = NoTokens
             \/ (is_access_expired(clock, tokens) /\ is_refresh_expired(clock, tokens))
          THEN /\ auth_lock' = t
               /\ calls' = [calls EXCEPT !.login = @ + 1]
               /\ task' = [task EXCEPT ![t] =
                              [me EXCEPT !.pc = "login_wait", !.chkLogins = @ + 1]]
               /\ step' = AuthEvent(op, t, 0, "none", 0)
               /\ UNCHANGED refreshOn
          ELSE IF ~is_access_expired(clock, tokens)
          THEN /\ task' = [task EXCEPT ![t] = AfterCheck(me, tokens)]
               /\ step' = CheckEnded(op, t, 0, me, tokens)
               /\ auth_lock' = "free"
               /\ UNCHANGED <<calls, refreshOn>>
          ELSE /\ auth_lock' = t
               /\ calls' = [calls EXCEPT !.refresh = @ + 1]
               /\ refreshOn' = Bump(refreshOn, tokens.access)
               /\ task' = [task EXCEPT ![t] =
                              [me EXCEPT !.pc = "refresh_wait", !.chkRefreshes = @ + 1]]
               /\ step' = AuthEvent(op, t, 0, "none", 0)

\* A task calls _request or the socket's connect.  With the lock free and
\* nobody queued for it, `async with self._auth_lock` does not suspend.
Invoke(t, kind) ==
    /\ ops < MaxOps
    /\ ops' = ops + 1
    /\ task[t].pc = "idle"
    /\ LET me == [IdleTask EXCEPT !.kind = kind]
       IN IF Locked(auth_lock) \/ \E u \in AuthTasks : task[u].pc = "want_lock"
          THEN /\ task' = [task EXCEPT ![t] = [me EXCEPT !.pc = "want_lock"]]
               /\ step' = AuthEvent("wait", t, 0, "none", 0)
               /\ UNCHANGED <<tokens, auth_lock, issued, calls, refreshOn, refreshFailOn>>
          ELSE CheckBody("check", t, me)
    /\ UNCHANGED <<clock, advances>>
    /\ UNCHANGED <<coordVars, sockVars>>

\* The lock was released and a queued task gets it.
Acquire(t) ==
    /\ task[t].pc = "want_lock"
    /\ ~Locked(auth_lock)
    /\ CheckBody("check_after_wait", t, task[t])
    /\ UNCHANGED <<clock, advances, ops>>
    /\ UNCHANGED <<coordVars, sockVars>>

\* The answer to the POST /v3/login of the credential check.
LoginResponse(t, ok) ==
    /\ task[t].pc = "login_wait"
    /\ auth_lock' = "free"
    /\ IF ok
       THEN /\ issued' = issued + 1
            /\ tokens' = from_response(issued + 1, clock)
            /\ task' = [task EXCEPT ![t] = AfterCheck(task[t], tokens')]
            /\ step' = CheckEnded("login_ok", t, 200, task[t], tokens')
       ELSE /\ task' = [task EXCEPT ![t] = IdleTask]
            /\ step' = AuthEvent("login_failed", t, 400, "AuthenticationError", 0)
            /\ UNCHANGED <<tokens, issued>>
    /\ UNCHANGED <<clock, calls, refreshOn, refreshFailOn, advances, ops>>
    /\ UNCHANGED <<coordVars, sockVars>>

\* The answer to the POST /v3/refresh of the credential check: on a refusal
\* _refresh_token raises AuthenticationError, which nothing catches.
RefreshResponse(t, ok) ==
    /\ task[t].pc = "refresh_wait"
    /\ auth_lock' = "free"
    /\ IF ok
       THEN /\ issued' = issued + 1
            /\ tokens' = from_response(issued + 1, clock)
            /\ task' = [task EXCEPT ![t] = AfterCheck(task[t], tokens')]
            /\ step' = CheckEnded("refresh_ok", t, 200, task[t], tokens')
            /\ UNCHANGED refreshFailOn
       ELSE /\ task' = [task EXCEPT ![t] = IdleTask]
            /\ step' = AuthEvent("refresh_failed", t, 400, "AuthenticationError", 0)
            /\ refreshFailOn' = Bump(refreshFailOn, task[t].entryTokens.access)
            /\ UNCHANGED <<tokens, issued>>
    /\ UNCHANGED <<clock, calls, refreshOn, advances, ops>>
    /\ UNCHANGED <<coordVars, sockVars>>

\* What _request does with a final response.
RequestResult(status) == IF status >= 400 THEN "MitsubishiComfortError" ELSE "ok"

\* The answer to the request: on 401 _refresh_token is called, outside the
\* lock, and its POST is awaited; 200 returns; any other status raises.
Response(t, status) ==
    /\ task[t].pc = "request_wait"
    /\ IF ShouldRetry(status, TRUE)
       THEN /\ task' = [task EXCEPT ![t] =
                           [@ EXCEPT !.pc = "forced_wait", !.forced = @ + 1]]
            /\ calls' = [calls EXCEPT !.refresh = @ + 1]
            /\ step' = AuthEvent("response", t, status, "none", 0)
       ELSE /\ task' = [task EXCEPT ![t] = IdleTask]
            /\ step' = AuthEvent("response", t, status, RequestResult(status), 0)
            /\ UNCHANGED calls
    /\ UNCHANGED <<clock, tokens, auth_lock, issued, refreshOn, refreshFailOn,
                   advances, ops>>
    /\ UNCHANGED <<coordVars, sockVars>>

\* The answer to the forced refresh: the new pair is stored and the request
\* is sent again with its access token; a refusal raises AuthenticationError.
ForcedRefreshResponse(t, ok) ==
    /\ task[t].pc = "forced_wait"
    /\ IF ok
       THEN /\ issued' = issued + 1
            /\ tokens' = from_response(issued + 1, clock)
            /\ task' = [task EXCEPT ![t] =
                           [@ EXCEPT !.pc = "retry_wait", !.hdr = tokens'.access,
                                     !.sends = @ + 1]]
            /\ step' = AuthEvent("forced_ok", t, 200, "none", 0)
       ELSE /\ task' = [task EXCEPT ![t] = IdleTask]
            /\ step' = AuthEvent("forced_failed", t, 400, "AuthenticationError", 0)
            /\ UNCHANGED <<tokens, issued>>
    /\ UNCHANGED <<clock, auth_lock, calls, refreshOn, refreshFailOn, advances, ops>>
    /\ UNCHANGED <<coordVars, sockVars>>

\* The answer to the request sent again: no further retry.
RetryResponse(t, status) ==
    /\ task[t].pc = "retry_wait"
    /\ step' = AuthEvent("retry_response", t, status, RequestResult(status), 0)
    /\ task' = [task EXCEPT ![t] = IdleTask]
    /\ UNCHANGED <<clock, tokens, auth_lock, issued, calls, refreshOn, refreshFailOn,
                   advances, ops>>
    /\ UNCHANGED <<coordVars, sockVars>>

\* Wall-clock time passes.
Advance(d) ==
    /\ advances < MaxAdvances
    /\ advances' = advances + 1
    /\ clock' = clock + d
    /\ step' = AuthEvent("advance", "none", 0, "none", 0)
    /\ UNCHANGED <<tokens, auth_lock, task, issued, calls, refreshOn, refreshFailOn, ops>>
    /\ UNCHANGED <<coordVars, sockVars>>

\* The client after construction.
AuthInit ==
    /\ clock = 0
    /\ tokens = NoTokens
    /\ auth_lock = "free"
    /\ task = [t \in AuthTasks |-> IdleTask]
    /\ issued = 0
    /\ calls = [login |-> 0, refresh |-> 0]
    /\ refreshOn = EmptyMap
    /\ refreshFailOn = EmptyMap
    /\ step = AuthEvent("init", "none", 0, "none", 0)
    /\ advances = 0
    /\ ops = 0

NextAuth ==
    \/ \E d \in ClockSteps : Advance(d)
    \/ \E t \in AuthTasks, k \in AuthKinds : Invoke(t, k)
    \/ \E t \in AuthTasks : Acquire(t)
    \/ \E t \in AuthTasks, ok \in BOOLEAN : LoginResponse(t, ok)
    \/ \E t \in AuthTasks, ok \in BOOLEAN : RefreshResponse(t, ok)
    \/ \E t \in AuthTasks, st \in Statuses : Response(t, st)
    \/ \E t \in AuthTasks, ok \in BOOLEAN : ForcedRefreshResponse(t, ok)
    \/ \E t \in AuthTasks, st \in Statuses : RetryResponse(t, st)

----------------------------------------------------------------------------
(* pykumo2/socket.py and coordinator.py: the streaming channel *)

\* socketio.AsyncClient(reconnection=True, reconnection_attempts=5, ...)
ReconnectionAttempts == 5

\* const.py: DEFAULT_FORCE_REQUESTS
DEFAULT_FORCE_REQUESTS == <<"iuStatus", "profile", "adapterStatus", "mhk2">>

\* The runs explored are those in which at most this many channels are made.
MaxChannels == 2

\* The tasks that call async_start_socket and async_stop.
SockCallers == {"c1", "c2"}

\* The order in which the registry's mapping lists its keys.
SerialOrder == <<"ABC123", "XYZ789">>

\* list(self.data.keys())
KeysList(d) == SelectSeq(SerialOrder, LAMBDA x : x \in DOMAIN d)

\* list(dict.fromkeys(device_serials)): the first occurrence of each serial.
RECURSIVE Dedup(_)
Dedup(serials) ==
    IF serials = <<>> THEN <<>>
    ELSE LET rest == Dedup(SubSeq(serials, 1, Len(serials) - 1))
             x == serials[Len(serials)]
         IN IF \E i \in 1..Len(rest) : rest[i] = x THEN rest ELSE Append(rest, x)

\* SocketUpdateManager.__init__.  sio is self._sio ("None" or "client"); conn
\* is the state of the socketio client once start() made one: "connecting",
\* "connected", "reconnecting" (dropped, the client retries on its own) or
\* "closed" (disconnected, connect refused, or retries used up).  token is
\* the pair whose access token start() handed to connect(): the client keeps
\* the arguments of connect() and uses them again when it reconnects.
NewChannel(device_serials, roc) ==
    [ serials |-> Dedup(device_serials),
      token |-> NoTokens,
      refresh_on_connect |-> roc,
      sio |-> None,
      conn |-> "idle",
      attempts |-> 0,
      wait_task |-> FALSE,
      stopping |-> FALSE ]

\* SocketUpdateManager.running
running(ch) == ch.sio # None /\ ch.conn = "connected"

\* The channel's client is connected, connecting or retrying: its handlers
\* can still deliver events to the callback.
Live(ch) == ch.conn \in {"connecting", "connected", "reconnecting"}

Emit(what, serial, arg) == [emit |-> what, serial |-> serial, arg |-> arg]

Dispatch(event) == [emit |-> "dispatch", serial |-> None, arg |-> event]

\* The requests _on_connect emits for one serial.
SerialEmits(serial, roc) ==
    <<Emit("subscribe", serial, None), Emit("device_status_v2", serial, None)>>
    \o (IF roc
        THEN [i \in 1..Len(DEFAULT_FORCE_REQUESTS) |->
                 Emit("force_adapter_request", serial, DEFAULT_FORCE_REQUESTS[i])]
        ELSE <<>>)

RECURSIVE AllEmits(_, _)
AllEmits(serials, roc) ==
    IF serials = <<>> THEN <<>>
    ELSE SerialEmits(Head(serials), roc) \o AllEmits(Tail(serials), roc)

\* Mutant: the lifecycle event is dispatched before the requests are emitted.
on_connect_DispatchFirst(ch) ==
    IF ch.sio = None THEN <<>>
    ELSE <<Dispatch("connected")>> \o AllEmits(ch.serials, ch.refresh_on_connect)

\* _on_connect: what the handler emits and dispatches, in order.
on_connect(ch) ==
    IF ch.sio = None THEN <<>>
    ELSE AllEmits(ch.serials, ch.refresh_on_connect) \o <<Dispatch("connected")>>

\* Mutant: stop() leaves the wait task referenced.
stop_KeepsTask(ch) ==
    [ch EXCEPT !.stopping = TRUE,
               !.conn = IF ch.sio # None /\ Live(ch) THEN "closed" ELSE @,
               !.sio = None,
               !.wait_task = ~@]

\* SocketUpdateManager.stop, from its call to its return.  disconnect() is
\* taken to end the client's connection and its attempts to reconnect.
stop(ch) ==
    [ch EXCEPT !.stopping = TRUE,
               !.conn = IF ch.sio # None /\ Live(ch) THEN "closed" ELSE @,
               !.sio = None,
               !.wait_task = FALSE]

\* Mutant: an empty registry does not hold the start back.
StartGuard_IgnoresEmpty(sock, chs, d) ==
    IF sock # 0 /\ running(chs[sock]) THEN "running" ELSE "start"

\* The two early returns of async_start_socket.
StartGuard(sock, chs, d) ==
    IF sock # 0 /\ running(chs[sock]) THEN "running"
    ELSE IF DOMAIN d = {} THEN "empty"
    ELSE "start"

\* Mutant: a callback that raises takes the connection down.
AfterCallback_TearsDown(ch, raises) ==
    IF raises THEN [ch EXCEPT !.conn = "closed"] ELSE ch

\* _dispatch: the channel after the callback returned or raised.
AfterCallback(ch, raises) == ch

\* Mutant: the client that used up its retries is marked as stopping.
AfterFailedReconnect_Stops(ch) ==
    [ch EXCEPT !.attempts = @ + 1,
               !.conn = IF ch.attempts + 1 >= ReconnectionAttempts THEN "closed" ELSE @,
               !.stopping = ch.attempts + 1 >= ReconnectionAttempts]

\* The client after one more failed attempt to reconnect.
AfterFailedReconnect(ch) ==
    [ch EXCEPT !.attempts = @ + 1,
               !.conn = IF ch.attempts + 1 >= ReconnectionAttempts THEN "closed" ELSE @]

\* The ghost: the step, the channel it was about, what the channel emitted
\* and dispatched in it, and a detail of the step.
SockEvent(op, chan, log, info) == [op |-> op, chan |-> chan, log |-> log, info |-> info]

\* async_start_socket up to  await self._client._ensure_authenticated()  in
\* start(): the lock, the two early returns, the construction.
AsyncStartSocket(c) ==
    LET guard == StartGuard(socket, chans, data)
    IN /\ caller[c] = "idle"
       /\ lock = "free"
       /\ guard = "start" => Len(chans) < MaxChannels
       /\ IF guard # "start"
          THEN /\ UNCHANGED <<socket, chans, lock, caller>>
               /\ sockLast' = SockEvent("start_returned", socket, <<>>, guard)
          ELSE /\ chans' = Append(chans, NewChannel(KeysList(data), refresh_on_connect))
               /\ socket' = Len(chans) + 1
               /\ lock' = c
               /\ caller' = [caller EXCEPT ![c] = "auth"]
               /\ sockLast' = SockEvent("constructed", Len(chans) + 1, <<>>, guard)
       /\ UNCHANGED <<coordVars, authVars, refresh_on_connect>>

\* The pair the client holds when _ensure_authenticated has returned: the
\* pair it had if its access token is unexpired, else the pair with identity
\* id that the login or the refresh exchange answered at time t.
EnsuredTokens(tk, t, id) ==
    IF tk = NoTokens \/ is_access_expired(t, tk) THEN from_response(id, t) ELSE tk

\* _ensure_authenticated returned or raised; with a token the client is made
\* and  await self._sio.connect(...)  begins with that token.
StartToken(c, ok) ==
    /\ caller[c] = "auth"
    /\ IF ok
       THEN /\ tokens' = EnsuredTokens(tokens, clock, issued + 1)
            /\ issued' = IF tokens' = tokens THEN issued ELSE issued + 1
            /\ chans' = [chans EXCEPT ![socket] =
                            [@ EXCEPT !.sio = "client", !.conn = "connecting",
                                      !.token = tokens']]
            /\ caller' = [caller EXCEPT ![c] = "connecting"]
            /\ lock' = lock
       ELSE /\ chans' = chans
            /\ caller' = [caller EXCEPT ![c] = "idle"]
            /\ lock' = "free"
            /\ UNCHANGED <<tokens, issued>>
    /\ sockLast' = SockEvent(IF ok THEN "connecting" ELSE "start_raised", socket, <<>>,
                             IF ok THEN "none" ELSE "AuthenticationError")
    /\ UNCHANGED <<clock, auth_lock, task, calls, refreshOn, refreshFailOn, step,
                   advances, ops>>
    /\ UNCHANGED <<coordVars, refresh_on_connect, socket>>

\* connect() returned, the connect handler having run, or raised.
StartConnect(c, ok) ==
    /\ caller[c] = "connecting"
    /\ chans' = [chans EXCEPT ![socket] =
                    IF ok THEN [@ EXCEPT !.conn = "connected", !.wait_task = TRUE]
                    ELSE [@ EXCEPT !.conn = "closed"]]
    /\ caller' = [caller EXCEPT ![c] = "idle"]
    /\ lock' = "free"
    /\ sockLast' = SockEvent(IF ok THEN "connected" ELSE "start_raised", socket,
                             IF ok THEN on_connect(chans[socket]) ELSE <<>>,
                             IF ok THEN "first" ELSE "ConnectionError")
    /\ UNCHANGED <<coordVars, authVars, refresh_on_connect, socket>>

\* async_stop: under the lock, stop() of the referenced channel, if any, and
\* the reference is dropped.
AsyncStop(c) ==
    /\ caller[c] = "idle"
    /\ lock = "free"
    /\ chans' = IF socket # 0 THEN [chans EXCEPT ![socket] = stop(@)] ELSE chans
    /\ socket' = 0
    /\ sockLast' = SockEvent("stop", socket,
                             IF socket # 0 /\ running(chans[socket])
                             THEN <<Dispatch("disconnected")>> ELSE <<>>,
                             "none")
    /\ UNCHANGED <<coordVars, authVars, refresh_on_connect, lock, caller>>

\* The connection of a channel drops: the disconnect handler runs and the
\* client starts to reconnect by itself.
Drop(i) ==
    /\ chans[i].conn = "connected"
    /\ chans' = [chans EXCEPT ![i] = [@ EXCEPT !.conn = "reconnecting", !.attempts = 0]]
    /\ sockLast' = SockEvent("drop", i, <<Dispatch("disconnected")>>, "none")
    /\ UNCHANGED <<coordVars, authVars, refresh_on_connect, socket, lock, caller>>

\* An attempt to reconnect succeeds: the connect handler runs again.
ReconnectOk(i) ==
    /\ chans[i].conn = "reconnecting"
    /\ chans' = [chans EXCEPT ![i] = [@ EXCEPT !.conn = "connected"]]
    /\ sockLast' = SockEvent("connected", i, on_connect(chans[i]), "again")
    /\ UNCHANGED <<coordVars, authVars, refresh_on_connect, socket, lock, caller>>

\* An attempt to reconnect fails: the connect_error handler runs; after
\* reconnection_attempts of them the client gives up.
ReconnectFail(i) ==
    /\ chans[i].conn = "reconnecting"
    /\ chans' = [chans EXCEPT ![i] = AfterFailedReconnect(@)]
    /\ sockLast' = SockEvent("reconnect_failed", i, <<Dispatch("connect_error")>>, "none")
    /\ UNCHANGED <<coordVars, authVars, refresh_on_connect, socket, lock, caller>>

\* The callback raised on the event this channel dispatched just before.
JustRaised(i) == sockLast.op = "inbound" /\ sockLast.chan = i /\ sockLast.info = "raised"

\* A device event arrives on a connected channel and is dispatched; the
\* callback returns or raises.
Inbound(i, raises) ==
    /\ chans[i].conn = "connected"
    /\ chans' = [chans EXCEPT ![i] = AfterCallback(@, raises)]
    /\ sockLast' = SockEvent("inbound", i, <<Dispatch("device_update")>>,
                             IF raises THEN "raised"
                             ELSE IF JustRaised(i) THEN "returned_after_raise"
                             ELSE "returned")
    /\ UNCHANGED <<coordVars, authVars, refresh_on_connect, socket, lock, caller>>

SockInit ==
    /\ refresh_on_connect \in BOOLEAN
    /\ socket = 0
    /\ chans = <<>>
    /\ lock = "free"
    /\ caller = [c \in SockCallers |-> "idle"]
    /\ sockLast = SockEvent("init", 0, <<>>, "none")

NextSock ==
    \/ \E c \in SockCallers : AsyncStartSocket(c)
    \/ \E c \in SockCallers, ok \in BOOLEAN : StartToken(c, ok)
    \/ \E c \in SockCallers, ok \in BOOLEAN : StartConnect(c, ok)
    \/ \E c \in SockCallers : AsyncStop(c)
    \/ \E i \in DOMAIN chans : Drop(i)
    \/ \E i \in DOMAIN chans : ReconnectOk(i)
    \/ \E i \in DOMAIN chans : ReconnectFail(i)
    \/ \E i \in DOMAIN chans, raises \in BOOLEAN : Inbound(i, raises)

----------------------------------------------------------------------------
(* The coordinator's specification *)

\* Modes the model feeds to the entity's operations.
HvacModeCalls == {"off"}

FanModeCalls == {"AUTO", "turbo"}

SwingModeCalls == {"Swing"}

CoordInit ==
    /\ now = 0
    /\ data \in InitRegistries
    /\ holds = EmptyMap
    /\ entities = DOMAIN data
    /\ cmd = [s \in DOMAIN data |-> Idle]
    /\ refreshing = FALSE
    /\ last = Ghost("init", None, EmptyMap, "none", 0)
    /\ replaced = EmptyMap
    /\ steps = 0

Next ==
    \/ \E d \in TickSteps : Tick(d)
    \/ \E e \in SocketEvents : HandleSocketEvent(e)
    \/ \E s \in Serials, kw \in TemperatureCalls : SetTemperature(s, kw)
    \/ \E s \in Serials, m \in HvacModeCalls : SetHvacMode(s, m)
    \/ \E s \in Serials, m \in FanModeCalls : SetFanMode(s, m)
    \/ \E s \in Serials, m \in SwingModeCalls : SetSwingMode(s, m)
    \/ \E s \in Serials : SendCommandOk(s)
    \/ \E s \in Serials : SendCommandFail(s)
    \/ RefreshStart
    \/ \E a \in SiteAnswers : RefreshDone(a)

Init == CoordInit /\ AuthInit /\ SockInit /\ refresh_on_connect

Spec == Init /\ [][Next]_vars

\* The client's specification: the coordinator stays as constructed.
InitAuth == Init /\ DOMAIN data = {"ABC123"}

SpecAuth == InitAuth /\ [][NextAuth]_vars

\* The channel's specification: the registry is as the first refresh left it,
\* empty or not, and stays so.
InitSock ==
    /\ AuthInit
    /\ SockInit
    /\ now = 0
    /\ data \in InitRegistries \cup {EmptyMap}
    /\ holds = EmptyMap
    /\ entities = DOMAIN data
    /\ cmd = [s \in DOMAIN data |-> Idle]
    /\ refreshing = FALSE
    /\ last = Ghost("init", None, EmptyMap, "none", 0)
    /\ replaced = EmptyMap
    /\ steps = 0

SpecSock == InitSock /\ [][NextSock]_vars

\* The channel while wall-clock time passes.
NextSockClock ==
    \/ NextSock
    \/ \E d \in ClockSteps : Advance(d)

SpecSockClock == InitSock /\ [][NextSockClock]_vars

\* The channel while the periodic refresh runs.
NextSockRefresh ==
    \/ NextSock
    \/ RefreshStart
    \/ \E a \in SiteAnswers : RefreshDone(a)

SpecSockRefresh == InitSock /\ [][NextSockRefresh]_vars

----------------------------------------------------------------------------
(* Claims about the command holds *)

\* The payload keys that name a field of the record.
CanonicalKeys ==
    {"name", "roomTemp", "spCool", "spHeat", "humidity", "operationMode", "power",
     "fanSpeed", "airDirection", "rssi", "twoFiguresCode", "connected"}

\* The record's value of the field a canonical key names.
FieldOf(dev, key) ==
    CASE key = "name" -> dev.name
      [] key = "roomTemp" -> dev.room_temp
      [] key = "spCool" -> dev.sp_cool
      [] key = "spHeat" -> dev.sp_heat
      [] key = "humidity" -> dev.humidity
      [] key = "operationMode" -> dev.operation_mode
      [] key = "power" -> dev.power
      [] key = "fanSpeed" -> dev.fan_speed
      [] key = "airDirection" -> dev.air_direction
      [] key = "rssi" -> dev.rssi
      [] key = "twoFiguresCode" -> dev.two_figures_code
      [] key = "connected" -> dev.connected

\* This step handled an event for a serial of the registry.
PushStep == last'.op = "push"

\* C1: while the hold of a serial is unexpired, a push event for the serial
\* changes no field named in the hold's protected set, and every other field
\* the payload carries is applied as a merge of the whole payload applies it.
C1_HoldProtectsFields ==
    [][ (PushStep /\ last'.serial \in DOMAIN holds
           /\ now < holds[last'.serial].expires_at) =>
          LET s == last'.serial
              p == last'.payload
              protected == holds[s].protected
          IN /\ \A k \in protected \cap CanonicalKeys :
                    FieldOf(data'[s], k) = FieldOf(data[s], k)
             /\ \A k \in (DOMAIN p \cap CanonicalKeys) \ protected :
                    FieldOf(data'[s], k) = FieldOf(apply_update(data[s], p), k) ]_vars

\* C2: a push event for a serial whose hold has reached its expiry
\* (now >= expires_at) is merged whole, and the hold table then has no entry
\* for the serial.
C2_ExpiredHoldDropped ==
    [][ (PushStep /\ last'.serial \in DOMAIN holds
           /\ now >= holds[last'.serial].expires_at) =>
          /\ data'[last'.serial] = apply_update(data[last'.serial], last'.payload)
          /\ last'.serial \notin DOMAIN holds' ]_vars

\* A push carrying spCool was handled exactly at the expiry of a hold registered
\* at time 0: the setpoint of the payload is in the record and the hold is gone.
C2_Witness ==
    /\ last.op = "push"
    /\ last.info = "expired"
    /\ now = DefaultHoldDuration
    /\ last.serial = "ABC123"
    /\ "spCool" \in DOMAIN last.payload
    /\ data["ABC123"].sp_cool = last.payload["spCool"]
    /\ "ABC123" \notin DOMAIN holds

\* C3: a successful command leaves exactly one hold for its serial, expiring
\* at now + duration and protecting exactly the keys of that command, whatever
\* hold was there before, and leaves the holds of other serials alone; a key
\* that only the replaced (unexpired) hold protected is applied by a push.
C3_HoldReplaced ==
    [][ /\ (last'.op = "cmd_ok" =>
              /\ DOMAIN holds' = DOMAIN holds \cup {last'.serial}
              /\ holds'[last'.serial] =
                    [expires_at |-> now + DefaultHoldDuration,
                     protected |-> HoldKeys(last'.info)]
              /\ \A x \in DOMAIN holds \ {last'.serial} : holds'[x] = holds[x])
        /\ ((PushStep /\ last'.info = "active" /\ last'.serial \in DOMAIN replaced) =>
              LET s == last'.serial
                  p == last'.payload
              IN \A k \in (replaced[s] \ holds[s].protected) \cap DOMAIN p :
                     FieldOf(data'[s], k) = FieldOf(apply_update(data[s], p), k)) ]_vars

\* A fan-mode hold replaced the unexpired hold of a set-temperature command,
\* and a push then set spCool, which only the replaced hold protected.
C3_Witness ==
    /\ last.op = "push"
    /\ last.info = "active"
    /\ last.serial \in DOMAIN replaced
    /\ last.serial \in DOMAIN holds
    /\ "spCool" \in replaced[last.serial] \ holds[last.serial].protected
    /\ "spCool" \in DOMAIN last.payload
    /\ data[last.serial].sp_cool = last.payload["spCool"]

\* C4: when the send of a command raises, the registry and the hold table are
\* as before, nothing is published and the coroutine ends with the exception.
C4_FailedSendChangesNothing ==
    [][ last'.op = "cmd_raised" =>
          /\ data' = data
          /\ holds' = holds
          /\ last'.pubs = 0
          /\ cmd'[last'.serial].pc = "idle" ]_vars

\* The send of a set-temperature command raised while the hold of an earlier
\* fan-mode command was in the table: that hold is still the one there.
C4_Witness ==
    /\ last.op = "cmd_raised"
    /\ last.info = "set_temperature"
    /\ last.serial \in DOMAIN holds
    /\ holds[last.serial].protected = {"fanSpeed"}

\* The commands of a set-temperature call to 22.5 on a record in mode cool.
C5_Commands == ("power" :> "1") @@ ("spCool" :> "22.5") @@ ("operationMode" :> "cool")

\* The push event of the scenario.
C5_Push == ("deviceSerial" :> "ABC123") @@ ("spCool" :> "24.0") @@ ("roomTemp" :> "23.1")

\* C5: from a record {power on, mode cool, spCool 24.0}, set temperature 22.5
\* sends {power 1, spCool 22.5, operationMode cool}; once sent, the record has
\* spCool 22.5 and power on and a 10 s hold covers spCool, operationMode and
\* power; a push {spCool 24.0, roomTemp 23.1} 2 s later leaves spCool 22.5 and
\* power on and sets roomTemp 23.1.
C5_EndToEnd ==
    [][ /\ ((last'.op = "cmd_start" /\ last'.info = "set_temperature"
               /\ last'.serial \in DOMAIN data
               /\ data[last'.serial].operation_mode = "cool") =>
              last'.payload = C5_Commands)
        /\ ((last'.op = "cmd_ok" /\ last'.info = "set_temperature"
               /\ cmd[last'.serial].dev = "live"
               /\ last'.payload = C5_Commands) =>
              LET s == last'.serial
              IN /\ data'[s].sp_cool = "22.5"
                 /\ data'[s].power
                 /\ data'[s].operation_mode = "cool"
                 /\ holds'[s].expires_at = now + 10
                 /\ {"spCool", "operationMode", "power"} \subseteq holds'[s].protected)
        /\ ((PushStep /\ last'.payload = C5_Push
               /\ "ABC123" \in DOMAIN holds
               /\ {"spCool", "operationMode", "power"} \subseteq holds["ABC123"].protected
               /\ holds["ABC123"].expires_at = now + 8
               /\ data["ABC123"].sp_cool = "22.5"
               /\ data["ABC123"].power) =>
              /\ data'["ABC123"].sp_cool = "22.5"
              /\ data'["ABC123"].power
              /\ data'["ABC123"].room_temp = "23.1") ]_vars

\* The end of the scenario: 2 s into the hold of the set-temperature command
\* the push was handled; the record has spCool 22.5, roomTemp 23.1, power on.
C5_Witness ==
    /\ last.op = "push"
    /\ last.payload = C5_Push
    /\ "ABC123" \in DOMAIN holds
    /\ holds["ABC123"].protected = {"spCool", "spHeat", "operationMode", "power"}
    /\ holds["ABC123"].expires_at = now + 8
    /\ data["ABC123"].sp_cool = "22.5"
    /\ data["ABC123"].room_temp = "23.1"
    /\ data["ABC123"].power
    /\ data["ABC123"].operation_mode = "cool"

----------------------------------------------------------------------------
(* Claims about the credentials *)

\* This step ran the decision of the credential check, at once or after a wait.
CheckStep == step'.op \in {"check", "check_after_wait"}

\* The refresh calls of the credential check the service refused for token k.
RefusedOn(k) == IF k \in DOMAIN refreshFailOn THEN refreshFailOn[k] ELSE 0

\* The task's call has got past the credential check with the current pair.
HasCurrentToken(t) == task[t].pc = "request_wait" /\ task[t].hdr = tokens.access

\* C6: when the refresh exchange of the credential check is refused, the
\* check goes on to a login and the caller sees no AuthenticationError yet.
C6_RefreshFailureEscalates ==
    [][ step'.op = "refresh_failed" =>
          /\ task'[step'.task].pc = "login_wait"
          /\ calls'.login = calls.login + 1
          /\ step'.ended = "none" ]_vars

\* C7: a credential check run while a pair exists and the clock is strictly
\* before its access expiry sends no login and no refresh, leaves the pair
\* as it is, and returns with its access token.
C7_FreshTokenNoCall ==
    [][ (CheckStep /\ tokens # NoTokens /\ clock < tokens.access_expires_at) =>
          LET me == task'[step'.task]
          IN /\ tokens' = tokens
             /\ calls' = calls
             /\ issued' = issued
             /\ auth_lock' = "free"
             /\ \/ me.pc = "request_wait" /\ me.hdr = tokens.access
                \/ me.pc = "idle" /\ step'.ended = "ok" /\ step'.token = tokens.access ]_vars

\* One minute before the access expiry of the only pair ever issued, the third
\* call has passed its check: one login in all, no refresh.
C7_Witness ==
    /\ step.op = "check"
    /\ ops = 3
    /\ issued = 1
    /\ calls = [login |-> 1, refresh |-> 0]
    /\ clock = tokens.access_expires_at - 1
    /\ \A t \in AuthTasks : task[t].pc \in {"idle", "request_wait"}

C9_OneRefreshForConcurrentChecks ==
    /\ [](Cardinality({t \in AuthTasks : task[t].pc \in {"login_wait", "refresh_wait"}}) <= 1)
    /\ [](\A k \in DOMAIN refreshOn : refreshOn[k] <= 1 + RefusedOn(k))
    /\ [][ (step'.op = "check_after_wait" /\ tokens # NoTokens
              /\ clock < tokens.access_expires_at) =>
             LET me == task'[step'.task]
             IN /\ calls' = calls
                /\ tokens' = tokens
                /\ \/ me.pc = "request_wait" /\ me.hdr = tokens.access
                   \/ me.pc = "idle" /\ step'.token = tokens.access ]_vars

\* At the access expiry of the first pair two tasks were in the check: one
\* refresh call in all, and both go on with the access token it brought.
C9_Witness ==
    /\ step.op = "check_after_wait"
    /\ clock = AccessLifetime
    /\ issued = 2
    /\ calls = [login |-> 1, refresh |-> 1]
    /\ refreshOn = (1 :> 1)
    /\ refreshFailOn = EmptyMap
    /\ \A t \in AuthTasks : HasCurrentToken(t)

\* C10 as stated: every forced refresh that follows a 401 is followed by the
\* call being sent once more with the new access token.
C10_RetryAfterEvery401 ==
    [][ step'.op \in {"forced_ok", "forced_failed"} =>
          /\ task'[step'.task].pc = "retry_wait"
          /\ task'[step'.task].sends = 2
          /\ issued' = issued + 1
          /\ task'[step'.task].hdr = tokens'.access ]_vars

\* C10, amended: a 401 triggers one forced refresh; if it succeeds the call is
\* sent once more, with the access token it brought, and the second answer
\* ends the call; if it is refused the call is not sent again and ends with
\* AuthenticationError.  A call is sent at most twice and forces at most one
\* refresh.
C10_OneForcedRefreshOneRetry ==
    /\ [](\A t \in AuthTasks : task[t].sends <= 2 /\ task[t].forced <= 1)
    /\ [][ /\ (step'.op = "response" /\ step'.status = 401) =>
                 /\ task[step'.task].forced = 0
                 /\ task'[step'.task].forced = 1
                 /\ task'[step'.task].sends = 1
                 /\ task'[step'.task].pc = "forced_wait"
                 /\ calls' = [calls EXCEPT !.refresh = @ + 1]
           /\ step'.op = "forced_ok" =>
                 /\ task[step'.task].sends = 1
                 /\ task'[step'.task].sends = 2
                 /\ task'[step'.task].forced = 1
                 /\ task'[step'.task].pc = "retry_wait"
                 /\ issued' = issued + 1
                 /\ tokens'.access = issued'
                 /\ task'[step'.task].hdr = tokens'.access
                 /\ calls' = calls
           /\ step'.op = "forced_failed" =>
                 /\ task[step'.task].sends = 1
                 /\ task'[step'.task].pc = "idle"
                 /\ step'.ended = "AuthenticationError"
                 /\ tokens' = tokens
                 /\ calls' = calls
           /\ step'.op = "retry_response" =>
                 /\ task[step'.task].sends = 2
                 /\ task[step'.task].forced = 1
                 /\ task'[step'.task].pc = "idle"
                 /\ step'.ended \in {"ok", "MitsubishiComfortError"}
                 /\ tokens' = tokens
                 /\ calls' = calls ]_vars

\* The only call so far was answered 401, forced the only refresh, was sent
\* again and was answered 401 again: it has ended.
C10_Witness ==
    /\ step.op = "retry_response"
    /\ step.status = 401
    /\ step.ended = "MitsubishiComfortError"
    /\ ops = 1
    /\ issued = 2
    /\ calls = [login |-> 1, refresh |-> 1]
    /\ task[step.task].pc = "idle"

----------------------------------------------------------------------------
(* Claims about the errors and the token pair *)

\* This step got the answer to a login or a refresh POST.
TokenAnswerOk == step'.op \in {"login_ok", "refresh_ok", "forced_ok"}

TokenAnswerRefused == step'.op \in {"login_failed", "refresh_failed", "forced_failed"}

\* C11: when the call sent again after the forced refresh is answered 401
\* too, the caller gets AuthenticationError.
C11_Second401IsAuthenticationError ==
    [][ (step'.op = "retry_response" /\ step'.status = 401) =>
          step'.ended = "AuthenticationError" ]_vars

\* C12: a first response with an error status other than 401 ends the call
\* with the generic error, with no login or refresh call, no second send and
\* the token pair as it was.
C12_OtherStatusRaisesServiceError ==
    [][ (step'.op = "response" /\ step'.status >= 400 /\ step'.status # 401) =>
          /\ step'.ended = "MitsubishiComfortError"
          /\ task[step'.task].sends = 1
          /\ task'[step'.task].pc = "idle"
          /\ calls' = calls
          /\ issued' = issued
          /\ tokens' = tokens ]_vars

\* The first call logged in and was answered 500: it ended with the generic
\* error, the pair of the login is still the stored one.
C12_Witness ==
    /\ step.op = "response"
    /\ step.status = 500
    /\ step.ended = "MitsubishiComfortError"
    /\ calls = [login |-> 1, refresh |-> 0]
    /\ tokens.access = 1
    /\ task[step.task].pc = "idle"

\* C13: a refused login or refresh ends the call with AuthenticationError and
\* leaves the stored pair as it was; an accepted one stores a pair all four
\* components of which are new.
C13_TokensReplacedWhole ==
    [][ /\ TokenAnswerRefused =>
              /\ step'.ended = "AuthenticationError"
              /\ tokens' = tokens
              /\ task'[step'.task].pc = "idle"
        /\ TokenAnswerOk =>
              /\ tokens'.access = issued + 1
              /\ tokens'.refresh = issued + 1
              /\ tokens'.access # tokens.access
              /\ tokens'.refresh # tokens.refresh
              /\ tokens'.access_expires_at = clock + AccessLifetime
              /\ tokens'.refresh_expires_at = clock + RefreshLifetime
        /\ (~TokenAnswerRefused /\ ~TokenAnswerOk) => tokens' = tokens ]_vars

\* A refresh was accepted and, one access lifetime later, the next one was
\* refused: the pair of the accepted refresh is still the stored one.
C13_Witness ==
    /\ step.op = "refresh_failed"
    /\ step.ended = "AuthenticationError"
    /\ issued = 2
    /\ tokens = [access |-> 2, refresh |-> 2,
                 access_expires_at |-> clock,
                 refresh_expires_at |-> clock - AccessLifetime + RefreshLifetime]

\* C14: a stored pair has its access expiry at or before its refresh expiry,
\* the two being one issuance instant plus 18 minutes and plus 25 days: the
\* clock of the step that stored the pair.
C14_ExpiriesFromIssuance ==
    /\ [](tokens # NoTokens =>
            /\ tokens.access_expires_at <= tokens.refresh_expires_at
            /\ tokens.access_expires_at - AccessLifetime
                 = tokens.refresh_expires_at - RefreshLifetime)
    /\ [][ tokens' # tokens =>
             /\ tokens'.access_expires_at = clock + AccessLifetime
             /\ tokens'.refresh_expires_at = clock + RefreshLifetime ]_vars

\* A second pair was stored just now, at a later instant than the first.
C14_Witness ==
    /\ step.op \in {"refresh_ok", "forced_ok"}
    /\ issued = 2
    /\ clock > 0
    /\ tokens.access_expires_at = clock + AccessLifetime
    /\ tokens.refresh_expires_at = clock + RefreshLifetime

----------------------------------------------------------------------------
(* The merge engine on its own: payloads merged into the records *)

\* The two merges: DeviceState.apply_update of a dict, and
\* DeviceStatePayload.apply_to_device of a validated payload.
MergeShapes == {"apply_update", "apply_to_device"}

\* Mutant: the payload is merged into a new record, not the existing one.
MergeResult_Fresh(dev, shape, payload) ==
    IF shape = "apply_update"
    THEN apply_update(DeviceState(dev.serial, dev.name), payload)
    ELSE payload_apply_to_device(DeviceState(dev.serial, dev.name), payload)

\* Mutant: the fan speed and the air direction of the payload are taken as
\* they come.
MergeResult_Unchecked(dev, shape, payload) ==
    [ (IF shape = "apply_update" THEN apply_update(dev, payload)
       ELSE payload_apply_to_device(dev, payload)) EXCEPT
        !.fan_speed = IF "fanSpeed" \in DOMAIN payload THEN payload["fanSpeed"] ELSE @,
        !.air_direction =
            IF "airDirection" \in DOMAIN payload THEN payload["airDirection"] ELSE @ ]

\* The record after the merge of a payload of the given shape.
MergeResult(dev, shape, payload) ==
    IF shape = "apply_update" THEN apply_update(dev, payload)
    ELSE payload_apply_to_device(dev, payload)

\* Payloads the model merges: every canonical field alone, the two other
\* carriers of mode and connectivity, values outside the allow-lists, and
\* payloads that carry such a value next to other fields.
MergePayloads ==
    { ("name" :> "Den"),
      ("roomTemp" :> "23.1"),
      ("spCool" :> "22.5"),
      ("spHeat" :> "20.0"),
      ("humidity" :> "45"),
      ("operationMode" :> "heat"),
      ("mode" :> "dry"),
      ("power" :> "0"),
      ("fanSpeed" :> "low"),
      ("fanSpeed" :> "turbo"),
      ("airDirection" :> "swing"),
      ("airDirection" :> "diagonal"),
      ("rssi" :> "-60"),
      ("twoFiguresCode" :> "A0"),
      ("connected" :> "false"),
      ("status" :> "disconnected"),
      ("fanSpeed" :> "turbo") @@ ("spCool" :> "21.0") @@ ("power" :> "1"),
      ("airDirection" :> "diagonal") @@ ("roomTemp" :> "19.0") @@ ("fanSpeed" :> "quiet") }

MaxMerges == 3

\* One more merge, within the budget.
MergeBudget == steps < MaxMerges /\ steps' = steps + 1

\* device.apply_update(payload)
ApplyUpdate(s, payload) ==
    /\ s \in DOMAIN data
    /\ data' = [data EXCEPT ![s] = MergeResult(@, "apply_update", payload)]
    /\ last' = Ghost("merge", s, payload, "apply_update", 0)
    /\ MergeBudget
    /\ UNCHANGED <<authVars, sockVars>>
    /\ UNCHANGED <<now, holds, entities, cmd, refreshing, replaced>>

\* payload.apply_to_device(device)
ApplyToDevice(s, payload) ==
    /\ s \in DOMAIN data
    /\ data' = [data EXCEPT ![s] = MergeResult(@, "apply_to_device", payload)]
    /\ last' = Ghost("merge", s, payload, "apply_to_device", 0)
    /\ MergeBudget
    /\ UNCHANGED <<authVars, sockVars>>
    /\ UNCHANGED <<now, holds, entities, cmd, refreshing, replaced>>

NextMerge ==
    \/ \E s \in Serials, p \in MergePayloads : ApplyUpdate(s, p)
    \/ \E s \in Serials, p \in MergePayloads : ApplyToDevice(s, p)

\* The merge engine's specification, on the record of one device.
SpecMerge == InitAuth /\ [][NextMerge]_vars

----------------------------------------------------------------------------
(* The payload shapes of the REST answers and of the status events *)

\* Payloads that set the mode, the setpoints and the connectivity, the
\* latter by the boolean, by the status, and by both.
ShapePayloads ==
    { ("operationMode" :> "heat"),
      ("mode" :> "dry"),
      ("spHeat" :> "20.0"),
      ("spCool" :> None) @@ ("spHeat" :> "21.0"),
      ("connected" :> "false"),
      ("status" :> "connected"),
      ("connected" :> "true") @@ ("status" :> "offline") }

\* Payloads of the device_status_v2 shape.
StatusPayloads ==
    { ("status" :> "connected"),
      ("status" :> "offline") @@ ("lastTimeDisconnected" :> "t1"),
      ("lastTimeConnected" :> "t0") }

\* DeviceStatusV2Payload.model_validate(payload).apply_to_device(device)
ApplyStatusV2(s, payload) ==
    /\ s \in DOMAIN data
    /\ data' = [data EXCEPT ![s] = status_v2_apply_to_device(@, payload)]
    /\ last' = Ghost("merge", s, payload, "device_status_v2", 0)
    /\ MergeBudget
    /\ UNCHANGED <<authVars, sockVars>>
    /\ UNCHANGED <<now, holds, entities, cmd, refreshing, replaced>>

\* Device-detail payloads (GET /v3/devices/{serial}).
DetailPayloads ==
    { ("deviceSerial" :> "ABC123") @@ ("modelNumber" :> "MSZ-1") @@ ("spCool" :> "26.0")
          @@ ("spHeat" :> "18.0") @@ ("fanSpeed" :> "low") @@ ("power" :> "0")
          @@ ("rssi" :> None),
      ("deviceSerial" :> "ABC123") @@ ("humidity" :> "50") @@ ("roomTemp" :> None) }

\* Zones of a listing with their adapter payloads.
ZonePayloads ==
    { [id |-> "z1", name |-> "Living room",
       adapter |-> ("deviceSerial" :> "ABC123") @@ ("spCool" :> "24.0") @@ ("power" :> "1")
                      @@ ("spHeat" :> None)],
      [id |-> "z1", name |-> "",
       adapter |-> ("deviceSerial" :> "ABC123") @@ ("operationMode" :> "auto")
                      @@ ("fanSpeed" :> "auto")],
      [id |-> "z2", name |-> "Den", adapter |-> EmptyMap] }

\* DeviceDetailsResponse.model_validate(details).apply_to_device(device)
ApplyDetails(s, payload) ==
    /\ s \in DOMAIN data
    /\ data' = [data EXCEPT ![s] = details_apply_to_device(@, payload)]
    /\ last' = Ghost("merge_details", s, payload, "device_details", 0)
    /\ MergeBudget
    /\ UNCHANGED <<authVars, sockVars>>
    /\ UNCHANGED <<now, holds, entities, cmd, refreshing, replaced>>

\* ZoneResponse.model_validate(zone).apply_to_device(device)
ApplyZone(s, zone) ==
    /\ s \in DOMAIN data
    /\ data' = [data EXCEPT ![s] = zone_apply_to_device(@, zone)]
    /\ last' = Ghost("merge_zone", s, zone, "zone", 0)
    /\ MergeBudget
    /\ UNCHANGED <<authVars, sockVars>>
    /\ UNCHANGED <<now, holds, entities, cmd, refreshing, replaced>>

NextShapes ==
    \/ \E s \in Serials, p \in ShapePayloads : ApplyUpdate(s, p)
    \/ \E s \in Serials, p \in ShapePayloads : ApplyToDevice(s, p)
    \/ \E s \in Serials, p \in StatusPayloads : ApplyStatusV2(s, p)
    \/ \E s \in Serials, p \in DetailPayloads : ApplyDetails(s, p)
    \/ \E s \in Serials, z \in ZonePayloads : ApplyZone(s, z)

\* The specification of the payload shapes, on the record of one device.
SpecShapes == InitAuth /\ [][NextShapes]_vars

----------------------------------------------------------------------------
(* Claims about the merge engine *)

\* This step merged a payload.
MergeStep == last'.op = "merge"

\* The payload carries canonical field F: under its key or, for the
\* operation mode and the connectivity, under the other key a shape has.
Carries(shape, payload, F) ==
    \/ shape # "device_status_v2" /\ F \in DOMAIN payload
    \/ shape = "apply_update" /\ F = "operationMode" /\ "mode" \in DOMAIN payload
    \/ shape \in {"apply_update", "device_status_v2"}
          /\ F = "connected" /\ "status" \in DOMAIN payload

\* The value of canonical field k a payload that has key k asks for.
Asked(payload, k) ==
    IF k \in {"power", "connected"} THEN Truthy(payload[k]) ELSE payload[k]

\* C15: a merge of a payload that does not carry canonical field F leaves
\* the record's F as it was, for both merges and every F.
C15_AbsentFieldUntouched ==
    [][ MergeStep =>
          \A F \in CanonicalKeys :
              ~Carries(last'.info, last'.payload, F) =>
                  FieldOf(data'[last'.serial], F) = FieldOf(data[last'.serial], F) ]_vars

\* After merges that set the heat setpoint and the humidity, a payload with
\* the room temperature alone was merged: the two are there, and so are the
\* cool setpoint, the mode and the power the record began with.
C15_Witness ==
    /\ last.op = "merge"
    /\ DOMAIN last.payload = {"roomTemp"}
    /\ data[last.serial].room_temp = "23.1"
    /\ data[last.serial].sp_heat = "20.0"
    /\ data[last.serial].humidity = "45"
    /\ data[last.serial].sp_cool = "24.0"
    /\ data[last.serial].operation_mode = "cool"
    /\ data[last.serial].power

\* C16: a fan speed (air direction) outside the allow-list leaves the
\* record's fan speed (air direction) as it was while the other fields of
\* the payload are applied, and the record's fan speed and air direction are
\* always None or in their allow-list.
C16_AllowListKept ==
    /\ [](\A s \in DOMAIN data :
            /\ data[s].fan_speed \in VALID_FAN_SPEEDS \cup {None}
            /\ data[s].air_direction \in VALID_AIR_DIRECTIONS \cup {None})
    /\ [][ MergeStep =>
             LET s == last'.serial
                 p == last'.payload
                 badFan == "fanSpeed" \in DOMAIN p /\ p["fanSpeed"] \notin VALID_FAN_SPEEDS
                 badDir == "airDirection" \in DOMAIN p
                              /\ p["airDirection"] \notin VALID_AIR_DIRECTIONS
             IN /\ badFan => data'[s].fan_speed = data[s].fan_speed
                /\ badDir => data'[s].air_direction = data[s].air_direction
                /\ (badFan \/ badDir) =>
                       \A k \in (DOMAIN p \cap CanonicalKeys) \ {"name"} :
                           \/ k = "fanSpeed" /\ badFan
                           \/ k = "airDirection" /\ badDir
                           \/ FieldOf(data'[s], k) = Asked(p, k) ]_vars

\* The fan speed was low; a payload with fan speed turbo, a cool setpoint
\* and power was merged: low stays, the setpoint is the payload's.
C16_Witness ==
    /\ last.op = "merge"
    /\ "fanSpeed" \in DOMAIN last.payload
    /\ last.payload["fanSpeed"] = "turbo"
    /\ data[last.serial].fan_speed = "low"
    /\ data[last.serial].sp_cool = "21.0"
    /\ data[last.serial].power

----------------------------------------------------------------------------
(* Claims about the periodic refresh *)

\* A step in which _async_update_data returned or raised.
RefreshStep == last'.op \in {"refresh_ok", "refresh_failed"} /\ last' # last

ServiceErrors == {"MitsubishiComfortError", "AuthenticationError"}

\* C17: a refresh in which a site's fetch raises a service error, also after
\* an earlier site of the cycle succeeded, raises UpdateFailed, publishes
\* nothing, and leaves the registry mapping and every record as they were.
C17_FailedRefreshAllOrNothing ==
    [][(RefreshStep /\ last'.payload.cause \in ServiceErrors) =>
          /\ last'.op = "refresh_failed"
          /\ last'.info = "UpdateFailed"
          /\ last'.pubs = 0
          /\ data' = data]_vars

C17_Witness ==
    /\ last.op = "refresh_failed"
    /\ last.payload.cause = "MitsubishiComfortError"
    /\ last.payload.sites = 1
    /\ last.info = "UpdateFailed"
    /\ DOMAIN data = {"ABC123"}

\* C18: a serial that has a record keeps a record in every later state.
C18_RecordNeverRemoved ==
    [][DOMAIN data \subseteq DOMAIN data']_vars

C20_AuthFailureDistinguished ==
    [][RefreshStep =>
          /\ (last'.payload.cause = "AuthenticationError" =>
                 last'.payload.setup = "ConfigEntryAuthFailed")
          /\ (last'.payload.cause = "MitsubishiComfortError" =>
                 last'.payload.setup = "ConfigEntryNotReady")]_vars

----------------------------------------------------------------------------
(* Claims about the events and the published snapshots *)

\* A step in which _handle_socket_event ran.
EventStep == last'.op \in {"push", "event_ignored"}

\* C27: an event whose tag is neither device_update nor device_status_v2, or
\* whose payload has no serial or a serial that is no key of the registry,
\* leaves the registry, every record and the hold table as they were and
\* publishes nothing.
C27_ForeignEventChangesNothing ==
    [][(/\ EventStep
        /\ \/ last'.event \notin PushTags
           \/ ~Truthy(last'.serial)
           \/ last'.serial \notin DOMAIN data) =>
          /\ data' = data
          /\ holds' = holds
          /\ last'.pubs = 0]_vars

\* Each of the three cases happened: a lifecycle tag, a payload without a
\* serial, a serial outside the registry.
C27_Witness ==
    /\ last.op = "event_ignored"
    /\ last.event = "device_update"
    /\ last.serial = "NOPE00"
    /\ holds # EmptyMap

C27_WitnessNoSerial ==
    /\ last.op = "event_ignored"
    /\ last.event = "device_status_v2"
    /\ last.serial = None

C27_WitnessLifecycleTag ==
    /\ last.op = "event_ignored"
    /\ last.event = "connected"

\* C28: every step that changes a record of the registry publishes: an
\* accepted push event publishes once, a command whose optimistic update
\* wrote to the registry publishes once, and the merge or update and its
\* publish are one step, so no other producer runs between them.
C28_MutationPublished ==
    [][/\ (last'.op = "push" => last'.pubs = 1)
       /\ ((last'.op = "cmd_ok" /\ WritesRegistry(cmd[last'.serial], last'.serial)) =>
              last'.pubs = 1)
       /\ (data' # data => last'.pubs = 1)]_vars

C28_Witness ==
    /\ last.op = "cmd_ok"
    /\ last.info = "set_temperature"
    /\ last.pubs = 1
    /\ last.serial \in DOMAIN data
    /\ "spCool" \in DOMAIN last.payload
    /\ data[last.serial].sp_cool = last.payload["spCool"]
    /\ data[last.serial].sp_cool # "24.0"

\* dict(self.data): a new mapping that holds, for each serial, a reference
\* to the record object the registry holds, not a copy of the record.
PublishedSnapshot(d) == [s \in DOMAIN d |-> [ref |-> s]]

\* What a snapshot shows when its records are read from the heap of objects.
SnapshotView(snapshot, heap) ==
    [s \in DOMAIN snapshot |-> heap[snapshot[s].ref]]

\* The step leaves every record object of the registry in place: all steps
\* but a successful refresh, which makes new objects.
SameObjects == last'.op # "refresh_ok" /\ DOMAIN data' = DOMAIN data

\* C29: the snapshot published in a state shows the same field values after
\* any later step.
C29_SnapshotImmutable ==
    [][SameObjects =>
          SnapshotView(PublishedSnapshot(data), data')
              = SnapshotView(PublishedSnapshot(data), data)]_vars

\* C30: a refresh whose zone listings succeed returns a record for every
\* serial the listings name.
C30_EnumerationBestEffort ==
    [][(RefreshStep /\ last'.payload.cause \notin ServiceErrors) =>
          /\ last'.op = "refresh_ok"
          /\ DOMAIN data' = DOMAIN last'.payload.listed]_vars

----------------------------------------------------------------------------
(* Claims about the streaming channel *)

\* C21: at most one channel is live (connecting, connected or reconnecting)
\* and a live channel is the one the coordinator references.
C21_OneLiveChannel ==
    /\ Cardinality({i \in DOMAIN chans : Live(chans[i])}) <= 1
    /\ \A i \in DOMAIN chans : Live(chans[i]) => socket = i

\* A step in which async_start_socket ran up to its return or to start().
StartStep == sockLast'.op \in {"start_returned", "constructed"}

\* C22: async_start_socket changes nothing, and goes on to no token and no
\* connection, when the referenced channel is running or the registry is
\* empty; otherwise it makes one channel, references it and starts it, and
\* the channel's serials are the keys of the registry.
C22_StartOnlyWhenNeeded ==
    [][StartStep =>
          IF (socket # 0 /\ running(chans[socket])) \/ DOMAIN data = {}
          THEN /\ sockLast'.op = "start_returned"
               /\ UNCHANGED <<socket, chans, lock, caller>>
          ELSE /\ sockLast'.op = "constructed"
               /\ Len(chans') = Len(chans) + 1
               /\ SubSeq(chans', 1, Len(chans)) = chans
               /\ socket' = Len(chans')
               /\ {chans'[socket'].serials[n] : n \in 1..Len(chans'[socket'].serials)}
                     = DOMAIN data
               /\ Len(chans'[socket'].serials) = Cardinality(DOMAIN data)
               /\ \E c \in SockCallers :
                     /\ caller[c] = "idle"
                     /\ caller' = [caller EXCEPT ![c] = "auth"]
                     /\ lock' = c]_vars

C22_Witness ==
    /\ sockLast.op = "constructed"
    /\ socket = 2
    /\ Len(chans[2].serials) = 2
    /\ ~running(chans[1])

C22_WitnessRunning ==
    /\ sockLast.op = "start_returned"
    /\ sockLast.info = "running"
    /\ Len(chans) = 1

C22_WitnessEmpty ==
    /\ sockLast.op = "start_returned"
    /\ sockLast.info = "empty"
    /\ chans = <<>>

C23_WitnessExhausted ==
    \E i \in DOMAIN chans :
        /\ chans[i].attempts = ReconnectionAttempts
        /\ chans[i].conn = "closed"
        /\ ~chans[i].stopping

\* C24: stop() on a channel without client and wait task leaves both as they
\* are and disconnects nothing, and stop() after stop() leaves the channel
\* as one stop() does.
C24_StopIdempotent ==
    /\ [](\A i \in DOMAIN chans :
             /\ stop(stop(chans[i])) = stop(chans[i])
             /\ (chans[i].sio = None /\ ~chans[i].wait_task) =>
                   /\ stop(chans[i]).sio = chans[i].sio
                   /\ stop(chans[i]).wait_task = chans[i].wait_task
                   /\ stop(chans[i]).conn = chans[i].conn)
    /\ [][(/\ sockLast'.op = "stop"
           /\ sockLast'.chan # 0
           /\ chans[sockLast'.chan].sio = None
           /\ ~chans[sockLast'.chan].wait_task) =>
             /\ chans' = [chans EXCEPT ![sockLast'.chan].stopping = TRUE]
             /\ sockLast'.log = <<>>]_vars

\* stop() ran on a channel that never started: its token check had raised.
C24_Witness ==
    /\ sockLast.op = "stop"
    /\ sockLast.chan = 1
    /\ chans[1].conn = "idle"
    /\ chans[1].stopping
    /\ chans[1].sio = None
    /\ ~chans[1].wait_task

\* How often the log holds the entry.
Count(log, entry) == Cardinality({n \in 1..Len(log) : log[n] = entry})

\* Where the log holds the entry first (0 if nowhere).
Position(log, entry) ==
    IF Count(log, entry) = 0 THEN 0
    ELSE CHOOSE n \in 1..Len(log) :
             log[n] = entry /\ \A m \in 1..(n - 1) : log[m] # entry

ForceTypes == {DEFAULT_FORCE_REQUESTS[n] : n \in 1..Len(DEFAULT_FORCE_REQUESTS)}

\* C25: on every connect, the first and each reconnect, the channel emits for
\* each serial of its list one subscribe and one device_status_v2 request and
\* then, if and only if refresh_on_connect is set, one force_adapter_request
\* of each type; nothing else is emitted, and the "connected" event is
\* dispatched once, after all of them.
C25_SubscribesOnConnect ==
    [][sockLast'.op = "connected" =>
          LET ch == chans'[sockLast'.chan]
              log == sockLast'.log
              serials == {ch.serials[n] : n \in 1..Len(ch.serials)}
              forced == IF ch.refresh_on_connect THEN 1 ELSE 0
          IN /\ \A s \in serials :
                   /\ Count(log, Emit("subscribe", s, None)) = 1
                   /\ Count(log, Emit("device_status_v2", s, None)) = 1
                   /\ \A t \in ForceTypes :
                         /\ Count(log, Emit("force_adapter_request", s, t)) = forced
                         /\ forced = 1 =>
                               /\ Position(log, Emit("force_adapter_request", s, t))
                                     > Position(log, Emit("subscribe", s, None))
                               /\ Position(log, Emit("force_adapter_request", s, t))
                                     > Position(log, Emit("device_status_v2", s, None))
             /\ Len(log) = Cardinality(serials) * (2 + forced * Len(DEFAULT_FORCE_REQUESTS)) + 1
             /\ log[Len(log)] = Dispatch("connected")
             /\ Count(log, Dispatch("connected")) = 1]_vars

\* A reconnect of a channel of two serials with refresh_on_connect.
C25_Witness ==
    /\ sockLast.op = "connected"
    /\ sockLast.info = "again"
    /\ Len(chans[sockLast.chan].serials) = 2
    /\ refresh_on_connect
    /\ Len(sockLast.log) = 13

C25_WitnessNoRefresh ==
    /\ sockLast.op = "connected"
    /\ sockLast.info = "first"
    /\ Len(chans[sockLast.chan].serials) = 2
    /\ ~refresh_on_connect
    /\ Len(sockLast.log) = 5

\* C26: an event whose callback raised leaves the channel, and every other
\* channel, as it was: still connected, so that the next event is dispatched.
C26_CallbackErrorAbsorbed ==
    /\ [][sockLast'.op = "inbound" => (chans' = chans /\ socket' = socket)]_vars
    /\ [](\A i \in DOMAIN chans : JustRaised(i) => chans[i].conn = "connected")

\* The callback raised on an event and the next event was dispatched.
C26_Witness ==
    /\ sockLast.op = "inbound"
    /\ sockLast.info = "returned_after_raise"
    /\ sockLast.log = <<Dispatch("device_update")>>

----------------------------------------------------------------------------
(* Claims about the derived values and the payload shapes *)

\* C31: the target temperature of a record is its cool setpoint in mode
\* cool and its heat setpoint in mode heat, present or not, and in every
\* other mode the cool setpoint if there is one, else the heat setpoint.
C31_TargetTemperature ==
    \A s \in DOMAIN data :
        LET dev == data[s]
            target == target_temperature(dev)
        IN /\ dev.operation_mode = "cool" => target = dev.sp_cool
           /\ dev.operation_mode = "heat" => target = dev.sp_heat
           /\ dev.operation_mode \notin {"cool", "heat"} =>
                 /\ dev.sp_cool # None => target = dev.sp_cool
                 /\ dev.sp_cool = None => target = dev.sp_heat

\* Mode cool without a cool setpoint and with a heat setpoint: no target.
C31_Witness ==
    /\ last.op = "merge"
    /\ data["ABC123"].operation_mode = "cool"
    /\ data["ABC123"].sp_cool = None
    /\ data["ABC123"].sp_heat = "21.0"
    /\ target_temperature(data["ABC123"]) = None

\* Mode heat with both setpoints, and mode dry with the heat setpoint only.
C31_WitnessHeat ==
    /\ data["ABC123"].operation_mode = "heat"
    /\ data["ABC123"].sp_cool = "24.0"
    /\ data["ABC123"].sp_heat = "20.0"
    /\ target_temperature(data["ABC123"]) = "20.0"

C31_WitnessOther ==
    /\ data["ABC123"].operation_mode = "dry"
    /\ data["ABC123"].sp_cool = None
    /\ target_temperature(data["ABC123"]) = "21.0"

\* C32: a merge of a payload with a string status leaves the record's
\* connectivity flag true exactly if the status is "connected"; a merge of a
\* payload with the boolean flag and no status leaves the flag equal to the
\* boolean; a merge of a payload with neither leaves the flag as it was.
C32_ConnectivityFromStatus ==
    [][MergeStep =>
          LET shape == last'.info
              p == last'.payload
              before == data[last'.serial].connected
              after == data'[last'.serial].connected
              hasStatus == shape \in {"apply_update", "device_status_v2"}
                              /\ "status" \in DOMAIN p
              hasFlag == shape \in {"apply_update", "apply_to_device"}
                            /\ "connected" \in DOMAIN p
          IN /\ hasStatus => (after <=> p["status"] = "connected")
             /\ (hasFlag /\ ~hasStatus) => (after <=> p["connected"] = "true")
             /\ (~hasFlag /\ ~hasStatus) => after = before]_vars

\* The flag was false; a payload with flag true and status "offline" was
\* merged: the status decides.
C32_Witness ==
    /\ last.op = "merge"
    /\ last.info = "apply_update"
    /\ DOMAIN last.payload = {"connected", "status"}
    /\ ~data[last.serial].connected

\* A device_status_v2 payload with status "connected" on a record whose flag
\* a boolean had set to false.
C32_WitnessStatusV2 ==
    /\ last.op = "merge"
    /\ last.info = "device_status_v2"
    /\ last.payload = ("status" :> "connected")
    /\ data[last.serial].connected
    /\ "connected" \in DOMAIN data[last.serial].raw
    /\ data[last.serial].raw["connected"] = "false"

\* The zone carries canonical field F: a name that is not empty, or a value
\* of its adapter payload that is not None.
ZoneCarries(zone, F) ==
    IF F = "name" THEN Truthy(zone.name)
    ELSE Get(zone.adapter, F) # None

ZoneAsked(zone, F) == IF F = "name" THEN zone.name ELSE Asked(zone.adapter, F)

\* The record after a device-detail payload and then a zone are merged.
DetailsThenZone(dev, details, zone) ==
    zone_apply_to_device(details_apply_to_device(dev, details), zone)

\* C33: after a device-detail payload and then a zone payload are merged
\* into a record, the diagnostic bag holds the raw data of both under their
\* shape tags, and each canonical field is the zone's value where the zone
\* carries it, else the detail payload's value where that carries it, else
\* as it was.
C33_DetailsThenZone ==
    /\ [](\A s \in DOMAIN data, d \in DetailPayloads, z \in ZonePayloads :
             LET r == DetailsThenZone(data[s], d, z)
             IN /\ "device_details" \in DOMAIN r.raw
                /\ r.raw["device_details"] = NotNone(d)
                /\ "zone" \in DOMAIN r.raw
                /\ r.raw["zone"] = ZoneRaw(z)
                /\ \A F \in CanonicalKeys :
                      FieldOf(r, F) =
                          IF ZoneCarries(z, F) THEN ZoneAsked(z, F)
                          ELSE IF Get(d, F) # None THEN Asked(d, F)
                          ELSE FieldOf(data[s], F))
    /\ [][(last.op = "merge_details" /\ last'.op = "merge_zone"
              /\ last'.serial = last.serial) =>
             LET d == last.payload
                 z == last'.payload
                 r == data'[last'.serial]
             IN /\ "device_details" \in DOMAIN r.raw
                /\ r.raw["device_details"] = NotNone(d)
                /\ "zone" \in DOMAIN r.raw
                /\ r.raw["zone"] = ZoneRaw(z)
                /\ \A F \in CanonicalKeys :
                      FieldOf(r, F) =
                          IF ZoneCarries(z, F) THEN ZoneAsked(z, F)
                          ELSE IF Get(d, F) # None THEN Asked(d, F)
                          ELSE FieldOf(data[last'.serial], F)]_vars

\* A device-detail payload and then a zone were merged: the bag has both,
\* the cool setpoint and the power are the zone's, the heat setpoint and the
\* fan speed the detail payload's.
C33_Witness ==
    /\ last.op = "merge_zone"
    /\ last.payload.name = "Living room"
    /\ LET r == data[last.serial]
       IN /\ "device_details" \in DOMAIN r.raw
          /\ "zone" \in DOMAIN r.raw
          /\ r.sp_cool = "24.0"
          /\ r.power
          /\ r.sp_heat = "18.0"
          /\ r.fan_speed = "low"
          /\ r.model_number = "MSZ-1"

----------------------------------------------------------------------------
(* Claims about commands, pushes and refreshes that interleave *)

\* This step completed a refresh, by a return or by an exception.
RefreshEnds == last'.op \in {"refresh_ok", "refresh_failed"}

\* The hold of serial s protects its record now.
Protects(s) == s \in DOMAIN holds /\ now < holds[s].expires_at /\ s \in DOMAIN data

\* C34: while the hold of a serial is unexpired, the protected fields of its
\* record stay as the command left them under every interleaving; here: a
\* refresh that completes inside the hold window, started before or after
\* the command, leaves the record in the registry with its protected fields
\* unchanged.
C34_HoldSurvivesRefresh ==
    [][ RefreshEnds =>
          \A s \in DOMAIN holds :
             Protects(s) =>
                /\ s \in DOMAIN data'
                /\ \A k \in holds[s].protected \cap CanonicalKeys :
                       FieldOf(data'[s], k) = FieldOf(data[s], k) ]_vars

\* C35: while an unexpired hold protects operationMode, no push changes the
\* mode of the record, whichever key of the payload names the mode.
C35_HoldProtectsMode ==
    [][ (PushStep /\ Protects(last'.serial)
           /\ "operationMode" \in holds[last'.serial].protected) =>
          data'[last'.serial].operation_mode = data[last'.serial].operation_mode ]_vars

\* C36: when set-temperature has returned after a successful send for a
\* serial that had a record at the call, the record of the serial in the
\* current registry holds the commanded setpoints and mode and power true,
\* also when a refresh replaced the registry while the send was in flight.
C36_SetTemperatureLands ==
    [][ (last'.op = "cmd_ok" /\ last'.info = "set_temperature"
           /\ cmd[last'.serial].dev # "none") =>
          LET s == last'.serial
              c == last'.payload
          IN /\ s \in DOMAIN data'
             /\ \A k \in DOMAIN c \cap {"spCool", "spHeat", "operationMode"} :
                    FieldOf(data'[s], k) = c[k]
             /\ data'[s].power ]_vars

\* C37: a field a push applied to a record is not overwritten by the
\* snapshot of a refresh that was in flight when the push arrived.
C37_PushSurvivesOlderSnapshot ==
    [][ (last.op = "push" /\ refreshing /\ last'.op = "refresh_ok") =>
          LET s == last.serial
          IN /\ s \in DOMAIN data'
             /\ \A k \in DOMAIN MergedPayload(holds, now, s, last.payload)
                            \cap CanonicalKeys :
                    FieldOf(data'[s], k) = FieldOf(data[s], k) ]_vars

----------------------------------------------------------------------------
(* Claims about credentials under concurrency *)

\* The tasks whose POST /v3/refresh is awaiting its answer, from the
\* credential check or forced by a 401.
RefreshesInFlight == {t \in AuthTasks : task[t].pc \in {"refresh_wait", "forced_wait"}}

\* C38: at most one refresh exchange is in flight at any time, the forced
\* refreshes after a 401 included; requests that receive 401 concurrently
\* lead to one refresh exchange, not one each.
C38_OneRefreshInFlight == Cardinality(RefreshesInFlight) <= 1

----------------------------------------------------------------------------
(* Claims about the channel over time *)

\* This step was an attempt of channel i to connect: the first one, made by
\* start(), or one the client made by itself after a drop.
Attempt(i) ==
    /\ chans' # chans
    /\ sockLast'.chan = i
    /\ \/ sockLast'.op = "connecting"
       \/ sockLast'.op = "reconnect_failed"
       \/ sockLast'.op = "connected" /\ sockLast'.info = "again"

\* C39: every attempt to connect, the automatic reconnections included, is
\* made with an access token that is unexpired at the time of the attempt.
C39_AttemptsUseFreshToken ==
    [][ \A i \in DOMAIN chans' :
           Attempt(i) => ~is_access_expired(clock', chans'[i].token) ]_vars

\* The serials the channel subscribes to when it connects.
Subscribed(ch) == {ch.serials[i] : i \in DOMAIN ch.serials}

\* C40: whenever the coordinator's channel is connected, the serials it is
\* subscribed to are the keys of the current registry.
C40_SubscriptionsFollowRegistry ==
    (socket # 0 /\ running(chans[socket])) => Subscribed(chans[socket]) = DOMAIN data

====
